---- MODULE Spec2Model ----
(***************************************************************************)
(* Companion: plugin event bus (web/server/plugins/manager.ts), browser    *)
(* WebSocket client (web/src/ws.ts, ws-message-handlers.ts) and the        *)
(* per-session bridge the client talks to.                                 *)
(***************************************************************************)
EXTENDS Integers, Sequences, FiniteSets, TLC

VARIABLES
  definitions,          \* PluginManager.definitions, in Map insertion order
  stEnabled,            \* stateStore state.enabled : id -> "unset" | "true" | "false"
  stConfig,             \* stateStore state.config  : id -> "unset" | "good" | "bad" | "dflt"
  warnedInvalidConfig,  \* PluginManager.warnedInvalidConfig
  emPc,                 \* position of the emit() call in flight
  emEvent,              \* event.name of that call
  emState,              \* const state = this.stateStore.getState()
  candidates,           \* const candidates (filtered, sorted)
  emIdx,                \* loop index into candidates (1-based)
  insights,             \* local insights array of emit
  permissionDecision,   \* local permissionDecision of emit (NoDecision = undefined)
  aborted,              \* local aborted flag of emit
  asyncRuns,            \* ids of the non-blocking runs started and not yet settled
  onInsightLog,         \* insights handed to options.onInsight of the call
  calls,                \* history: onEvent invocations of the emit in flight
  skipped,              \* history: candidates skipped because disabled
  failedBlocking,       \* history: blocking plugins whose run failed in this emit
  warnLog,              \* history: console.warn calls of resolveConfig, per plugin id
  outcome,              \* history: how the last call of list, setEnabled,
                        \* updateConfig or dryRun ended
  streak,               \* history: consecutive failed blocking runs, per watched id
  lateRuns              \* runs whose timer fired while the plugin's promise is pending

VARIABLES
  \* WsBridge, per session
  brSeq,                \* seq of the last envelope stamped (0: none yet)
  ring,                 \* replay ring: the last RingCapacity envelopes
  stamped,              \* history: the seq stamped on each envelope, in order
  subscribed,           \* sockets that sent session_subscribe and are not closed
  pendingPermissions,   \* request ids stored and not yet resolved or cancelled
  seenClientMsgIds,     \* client_msg_ids remembered, oldest first
  backendLog,           \* history: permission traffic from the backend and
                        \* everything forwarded to it, in order
  received,             \* history: browser commands the bridge read, in order
  \* the wire
  chan,                 \* per socket: frames the bridge sent, not yet read
  up,                   \* per socket: frames the browser sent, not yet read
  \* browser client (ws.ts), per session
  sockets,              \* sockets.get(sessionId): a socket id, 0 when absent
  sockState,            \* per socket: "unused", "connecting", "open", "closing", "closed"
  reconnectTimers,      \* reconnectTimers.has(sessionId)
  lastSeqBySession,     \* lastSeqBySession.get(sessionId), -1 when absent
  lsSeq,                \* localStorage companion:last-seq:<id>, -1 when absent
  storageAvailable,     \* FALSE: every localStorage access throws
  clientMsgCounter,     \* clientMsgCounter
  handled,              \* history: seq of every envelope given to a type handler
  staleDropped,         \* history: seqs of the envelopes dropped as already seen
  acked,                \* history: last_seq of every session_ack put on a socket
  sentCmds              \* history: idempotent commands sendToSession built

VARIABLES
  \* one run of the session-creation pipeline
  plPc,                 \* position of _run ("idle": no run started)
  plBody,               \* the request body and what it resolves to
  plLog,                \* history: reporter calls and side effects, in order
  plResult,             \* how runSessionCreationPipeline ended
  plRun                 \* locals of _run: tempId, containerInfo, session

pipelineVars == <<plPc, plBody, plLog, plResult, plRun>>

VARIABLES
  \* the ContainerManager and the container runtime it drives
  containers,           \* the tracking map: session key -> ContainerInfo
  docker,               \* the runtime: container id -> its state there
  ctNext,               \* the next container id the runtime hands out
  stateFile,            \* the file persistState writes and restoreState reads
  ctOutcome             \* how the last ContainerManager call ended

containerVars == <<containers, docker, ctNext, stateFile, ctOutcome>>

VARIABLES
  \* worktrees and the WorktreeTracker
  wtMappings,           \* session -> the mapping the tracker holds for it
  worktrees,            \* worktree path -> absent, clean or dirty on disk
  wtOutcome             \* what the last cleanupWorktree call did

worktreeVars == <<wtMappings, worktrees, wtOutcome>>

VARIABLES
  \* the WebSocket proxy of the Codex backend (codex-ws-proxy.cjs)
  pxSock,               \* every WebSocket created: id -> what it has emitted
  pxWs,                 \* let ws (0: null)
  pxOpened,             \* let opened
  pxExit,               \* "running", or the code the process exited with
  pxQueue,              \* let queue
  pxAttempt,            \* let connectAttempt
  pxTimers,             \* pending setTimeout(connect, ...): due times, in order
  pxNow,                \* Date.now() - startedAt, in units of 100 ms
  pxRead,               \* history: the lines readline delivered, in order
  pxSent                \* history: ws.send calls, in order

proxyVars == <<pxSock, pxWs, pxOpened, pxExit, pxQueue, pxAttempt, pxTimers,
               pxNow, pxRead, pxSent>>

VARIABLES
  \* tool progress in the store of the browser client
  toolProgress,         \* store.toolProgress: session -> tool_use_id -> seconds
  tpLast                \* history: the last incoming message handled

toolVars == <<toolProgress, tpLast>>

VARIABLES
  \* how the browser client's sockets came to close
  disconnecting,        \* history: sockets disconnectSession closed whose close
                        \* event has not been delivered yet
  reconnectOwed         \* history: a socket closed without disconnectSession, and
                        \* since then no timer of scheduleReconnect has fired, no
                        \* socket was created and disconnectSession was not called

reconnectVars == <<disconnecting, reconnectOwed>>

VARIABLES
  bridgeRestarts        \* how often a new WsBridge replaced the session's bridge

adapterVars == <<proxyVars, toolVars, reconnectVars, bridgeRestarts>>

\* everything outside the session that the connection handling leaves alone
besideSession == <<pipelineVars, containerVars, worktreeVars, proxyVars, toolVars,
                   bridgeRestarts>>

creationVars == <<pipelineVars, containerVars, worktreeVars, adapterVars>>

bridgeVars == <<brSeq, ring, stamped, subscribed, pendingPermissions,
                seenClientMsgIds, backendLog, received>>

wireVars == <<chan, up>>

clientVars == <<sockets, sockState, reconnectTimers, lastSeqBySession, lsSeq,
                storageAvailable, clientMsgCounter, handled, staleDropped, acked,
                sentCmds>>

sessionVars == <<bridgeVars, wireVars, clientVars>>

pluginVars == <<definitions, stEnabled, stConfig, warnedInvalidConfig, emPc, emEvent,
                emState, candidates, emIdx, insights, permissionDecision, aborted,
                asyncRuns, onInsightLog, calls, skipped, failedBlocking, warnLog,
                outcome, streak, lateRuns>>

(***************************************************************************)
(* Plugin definitions.                                                     *)
(***************************************************************************)
Events == {"permission.requested", "session.killed"}

PluginIds ==
  {"notifications", "permission-automation", "test-a", "test-b", "global-plugin",
   "project-plugin", "gated-plugin", "flaky-plugin", "broken-config-plugin",
   "strict-plugin"}

\* every capability a definition may declare
Capabilities ==
  {"insight:toast", "insight:sound", "insight:desktop", "permission:auto-decide",
   "message:mutate"}

\* validate: "none" (no validateConfig), "normalize" (never throws),
\* "strict" (throws on a malformed value)
\* timeoutMs: 0 when the definition has no timeoutMs
\* mutation: the userMessageMutation its onEvent returns on
\* user.message.before_send ("none", "prefix" or "append")
notificationsPlugin ==
  [id |-> "notifications", priority |-> 50, blocking |-> TRUE,
   failPolicy |-> "continue", defaultEnabled |-> TRUE, validate |-> "normalize",
   events |-> {"session.created", "session.killed", "permission.requested"},
   timeoutMs |-> 1000, mutation |-> "none",
   capabilities |-> {"insight:toast", "insight:sound", "insight:desktop"}]

permissionAutomationPlugin ==
  [id |-> "permission-automation", priority |-> 1000, blocking |-> TRUE,
   failPolicy |-> "abort_current_action", defaultEnabled |-> FALSE,
   validate |-> "normalize", events |-> {"permission.requested"},
   timeoutMs |-> 500, mutation |-> "none",
   capabilities |-> {"permission:auto-decide", "insight:toast"}]

getBuiltinPlugins == <<notificationsPlugin, permissionAutomationPlugin>>

\* Plugins a caller may register (the shapes manager.test.ts registers).
TestPlugins ==
  [id : {"test-a"}, priority : {50, 100}, blocking : BOOLEAN,
   failPolicy : {"unset", "abort_current_action"}, defaultEnabled : {TRUE},
   validate : {"strict"}, events : {Events}, timeoutMs : {0}, mutation : {"none"},
   capabilities : {Capabilities}]
  \cup
  [id : {"test-b"}, priority : {50}, blocking : {FALSE},
   failPolicy : {"unset"}, defaultEnabled : {TRUE},
   validate : {"none"}, events : {Events}, timeoutMs : {0}, mutation : {"none"},
   capabilities : {Capabilities}]

DefaultConfig == "dflt"

MaxWarnings == 2     \* console.warn calls counted per plugin id

\* consecutive failures after which manager.test.ts expects a degraded plugin
DegradedAfter == 3

\* the plugin whose consecutive failures the health test counts
WatchedIds == {"flaky-plugin"}

\* how a call of the manager ends for its caller
Returned == "returned"

ReturnedNull == "null"

PluginConfigValidationError == "PluginConfigValidationError"

TypeError == "TypeError"

IndexOf(id) == CHOOSE i \in DOMAIN definitions : definitions[i].id = id

Registered(id) == \E i \in DOMAIN definitions : definitions[i].id = id

\* this.definitions.set(plugin.id, plugin): a known id keeps its Map position
MapSet(defs, plugin) ==
  IF \E i \in DOMAIN defs : defs[i].id = plugin.id
    THEN [i \in DOMAIN defs |-> IF defs[i].id = plugin.id THEN plugin ELSE defs[i]]
    ELSE Append(defs, plugin)

(***************************************************************************)
(* resolveConfig(plugin, stateConfig, {persistDefaultOnInvalid: true})     *)
(***************************************************************************)
ValidateThrows(plugin, raw) == plugin.validate = "strict" /\ raw = "bad"

RawConfig(plugin, stateConfig) ==
  IF stateConfig = "unset" THEN DefaultConfig ELSE stateConfig

ResolveThrows(plugin, stateConfig) ==
  plugin.validate # "none" /\ ValidateThrows(plugin, RawConfig(plugin, stateConfig))

resolveConfig(plugin, stateConfig) ==
  IF ResolveThrows(plugin, stateConfig) THEN DefaultConfig
  ELSE RawConfig(plugin, stateConfig)

ResolveWarned(plugin, stateConfig, warned) ==
  IF ResolveThrows(plugin, stateConfig) THEN warned \cup {plugin.id} ELSE warned

\* faulty variant of ResolveStore: the rejected config stays in the state file
KeepRejectedConfig(plugin, stateConfig, store) == store

\* if (options.persistDefaultOnInvalid && stateConfig !== undefined) update(...)
ResolveStore(plugin, stateConfig, store) ==
  IF ResolveThrows(plugin, stateConfig) /\ stateConfig # "unset"
    THEN [store EXCEPT ![plugin.id] = DefaultConfig]
    ELSE store

\* console.warn in the catch block of resolveConfig, once per id in warned
ResolveWarnLog(plugin, stateConfig, warned, log) ==
  IF ResolveThrows(plugin, stateConfig) /\ plugin.id \notin warned
       /\ log[plugin.id] < MaxWarnings
    THEN [log EXCEPT ![plugin.id] = @ + 1]
    ELSE log

\* list(): resolveConfig for every definition, against one getState() snapshot
RECURSIVE ListWarnLog(_, _, _, _)
ListWarnLog(defs, snap, warned, log) ==
  IF defs = <<>> THEN log
  ELSE ListWarnLog(Tail(defs), snap,
                   ResolveWarned(Head(defs), snap[Head(defs).id], warned),
                   ResolveWarnLog(Head(defs), snap[Head(defs).id], warned, log))

RECURSIVE ListWarned(_, _, _)
ListWarned(defs, snap, warned) ==
  IF defs = <<>> THEN warned
  ELSE ListWarned(Tail(defs), snap, ResolveWarned(Head(defs), snap[Head(defs).id], warned))

RECURSIVE ListStore(_, _, _)
ListStore(defs, snap, store) ==
  IF defs = <<>> THEN store
  ELSE ListStore(Tail(defs), snap, ResolveStore(Head(defs), snap[Head(defs).id], store))

(***************************************************************************)
(* emit(): candidate selection                                             *)
(***************************************************************************)
RECURSIVE InsertByPriority(_, _)
InsertByPriorityUnstable(s, p) ==
  IF s = <<>> THEN <<p>>
  ELSE IF Head(s).priority > p.priority
         THEN <<Head(s)>> \o InsertByPriority(Tail(s), p)
         ELSE <<p>> \o s

\* insertion step of the stable sort (a, b) => b.priority - a.priority
InsertByPriority(s, p) ==
  IF s = <<>> THEN <<p>>
  ELSE IF Head(s).priority >= p.priority
         THEN <<Head(s)>> \o InsertByPriority(Tail(s), p)
         ELSE <<p>> \o s

RECURSIVE SortByPriority(_)
SortByPriority(s) ==
  IF s = <<>> THEN <<>>
  ELSE InsertByPriority(SortByPriority(SubSeq(s, 1, Len(s) - 1)), s[Len(s)])

Subscribed(plugin, name) == name \in plugin.events

Candidates(defs, name) ==
  SortByPriority(SelectSeq(defs, LAMBDA p : Subscribed(p, name)))

\* typeof savedEnabled === "boolean" ? savedEnabled : plugin.defaultEnabled
IsEnabled(plugin, state) ==
  IF state.enabled[plugin.id] = "unset" THEN plugin.defaultEnabled
  ELSE state.enabled[plugin.id] = "true"

\* faulty variant of IsBlocking: every plugin is awaited
AwaitEveryPlugin(plugin) == TRUE

\* if (!plugin.blocking) { fire and forget } else { await }
IsBlocking(plugin) == plugin.blocking

FailPolicyOf(plugin) ==
  IF plugin.failPolicy = "unset" THEN "continue" ELSE plugin.failPolicy

\* what a settled onEvent promise may carry
Results ==
  {[void |-> TRUE, insight |-> FALSE, decision |-> "none"],
   [void |-> FALSE, insight |-> TRUE, decision |-> "none"],
   [void |-> FALSE, insight |-> TRUE, decision |-> "allow"],
   [void |-> FALSE, insight |-> FALSE, decision |-> "deny"]}

\* what the onEvent of plugin may return: the notifications plugin returns
\* insights or nothing, never a decision
ResultsOf(plugin) ==
  IF plugin.id = "notifications" THEN {r \in Results : r.decision = "none"}
  ELSE Results

\* history value of a call whose run has not been fulfilled
Pending == [void |-> TRUE, insight |-> FALSE, decision |-> "pending"]

\* let permissionDecision: PermissionAutomationDecision | undefined
NoDecision == [behavior |-> "none", pluginId |-> "none"]

\* faulty variant of MergeDecision: a later decision replaces an earlier one
LastDecisionWins(current, result, id) ==
  IF ~result.void /\ result.decision # "none"
    THEN [behavior |-> result.decision, pluginId |-> id]
    ELSE current

\* if (!result) continue; ...
\* if (!permissionDecision && result.permissionDecision) permissionDecision = ...
MergeDecision(current, result, id) ==
  IF ~result.void /\ current = NoDecision /\ result.decision # "none"
    THEN [behavior |-> result.decision, pluginId |-> id]
    ELSE current

PluginInsight(id) == [plugin_id |-> id, title |-> "insight", message |-> "text"]

\* message: err.message, "timeout" standing for `Plugin timeout after Nms`
toPluginErrorInsight(id, kind) ==
  [plugin_id |-> id, title |-> "Plugin error",
   message |-> IF kind = "timeout" THEN "timeout" ELSE "error"]

DEFAULT_TIMEOUT_MS == 3000

\* const timeoutMs = plugin.timeoutMs ?? DEFAULT_TIMEOUT_MS
timeoutMs(plugin) ==
  IF plugin.timeoutMs = 0 THEN DEFAULT_TIMEOUT_MS ELSE plugin.timeoutMs

\* faulty variant of TimerArmed: the run is awaited without a timer
NoTimer(ms) == FALSE

\* const timer = setTimeout(() => reject(...), timeoutMs): every run has one
TimerArmed(ms) == ms > 0

\* the run of plugin, rejected with `Plugin timeout after ${timeoutMs}ms`
TimedOut(plugin) == [id |-> plugin.id, after |-> timeoutMs(plugin)]

(***************************************************************************)
(* Plugin-bus actions                                                      *)
(***************************************************************************)
\* value of emit's local `state` while no call is in flight
NoSnapshot ==
  [enabled |-> [id \in PluginIds |-> "unset"], config |-> [id \in PluginIds |-> "unset"]]

\* emit runs synchronously between two awaits: the callbacks of settled
\* promises run only while it is suspended or done
Suspended == emPc # "loop"

\* no emit call in flight, the result of the last one taken by its caller
Idle == emPc = "idle"

emitVars == <<emPc, emEvent, emState, candidates, emIdx, insights, permissionDecision,
              aborted, asyncRuns, onInsightLog, calls, skipped, failedBlocking>>

\* register(plugin)
Register(plugin) ==
  /\ Idle
  /\ definitions' = MapSet(definitions, plugin)
  /\ UNCHANGED <<stEnabled, stConfig, warnedInvalidConfig>>
  /\ UNCHANGED emitVars
  /\ UNCHANGED <<warnLog, outcome, streak>>
  /\ UNCHANGED lateRuns
  /\ UNCHANGED <<sessionVars, creationVars>>

\* list()
List ==
  /\ Idle
  /\ warnedInvalidConfig' = ListWarned(definitions, stConfig, warnedInvalidConfig)
  /\ stConfig' = ListStore(definitions, stConfig, stConfig)
  /\ UNCHANGED <<definitions, stEnabled>>
  /\ UNCHANGED emitVars
  /\ warnLog' = ListWarnLog(definitions, stConfig, warnedInvalidConfig, warnLog)
  /\ outcome' = Returned
  /\ UNCHANGED streak
  /\ UNCHANGED lateRuns
  /\ UNCHANGED <<sessionVars, creationVars>>

\* how setEnabled(id, enabled) ends
setEnabledOutcome(id) == IF Registered(id) THEN Returned ELSE ReturnedNull

\* setEnabled(id, enabled)
SetEnabled(id, enabled) ==
  /\ Idle
  /\ IF ~Registered(id)
       THEN UNCHANGED <<stEnabled, stConfig, warnedInvalidConfig, warnLog>>
       ELSE /\ stEnabled' = [stEnabled EXCEPT ![id] = enabled]
            /\ warnedInvalidConfig' = ListWarned(definitions, stConfig, warnedInvalidConfig)
            /\ stConfig' = ListStore(definitions, stConfig, stConfig)
            /\ warnLog' =
                 ListWarnLog(definitions, stConfig, warnedInvalidConfig, warnLog)
  /\ UNCHANGED <<definitions>>
  /\ UNCHANGED emitVars
  /\ outcome' = setEnabledOutcome(id)
  /\ UNCHANGED streak
  /\ UNCHANGED lateRuns
  /\ UNCHANGED <<sessionVars, creationVars>>

\* plugin.validateConfig ? plugin.validateConfig(rawConfig) : rawConfig
ValidatedConfig(plugin, raw) ==
  IF plugin.validate = "normalize" /\ raw = "bad" THEN DefaultConfig ELSE raw

\* how updateConfig(id, rawConfig) ends
updateConfigOutcome(id, raw) ==
  IF ~Registered(id) THEN ReturnedNull
  ELSE IF ValidateThrows(definitions[IndexOf(id)], raw)
         THEN PluginConfigValidationError
         ELSE Returned

\* faulty variant of StoredConfig: the raw value is stored before it is validated
StoreBeforeValidate(store, id, plugin, raw) == [store EXCEPT ![id] = raw]

\* the state after this.stateStore.update of updateConfig, which the code
\* reaches only when validateConfig returned
StoredConfig(store, id, plugin, raw) ==
  IF ValidateThrows(plugin, raw) THEN store
  ELSE [store EXCEPT ![id] = ValidatedConfig(plugin, raw)]

\* updateConfig(id, rawConfig)
UpdateConfig(id, raw) ==
  /\ Idle
  /\ outcome' = updateConfigOutcome(id, raw)
  /\ IF ~Registered(id)
       THEN UNCHANGED <<stConfig, warnedInvalidConfig, warnLog>>
       ELSE LET plugin == definitions[IndexOf(id)]
                stored == StoredConfig(stConfig, id, plugin, raw)
            IN IF ValidateThrows(plugin, raw)
                 THEN /\ stConfig' = stored
                      /\ UNCHANGED <<warnedInvalidConfig, warnLog>>
                 ELSE /\ warnedInvalidConfig' =
                           ListWarned(definitions, stored, warnedInvalidConfig \ {id})
                      /\ stConfig' = ListStore(definitions, stored, stored)
                      /\ warnLog' = ListWarnLog(definitions, stored,
                                                warnedInvalidConfig \ {id}, warnLog)
  /\ UNCHANGED <<definitions, stEnabled, streak>>
  /\ UNCHANGED emitVars
  /\ UNCHANGED lateRuns
  /\ UNCHANGED <<sessionVars, creationVars>>

\* dryRun(id, event): PluginManager has no such member, the call throws
DryRun(id, name) ==
  /\ Idle
  /\ outcome' = TypeError
  /\ UNCHANGED <<definitions, stEnabled, stConfig, warnedInvalidConfig>>
  /\ UNCHANGED emitVars
  /\ UNCHANGED <<warnLog, streak, lateRuns>>
  /\ UNCHANGED <<sessionVars, creationVars>>

\* emit(event, options): the statements before the loop
EmitStart(name) ==
  /\ Idle
  /\ emPc' = "loop"
  /\ emEvent' = name
  /\ emState' = [enabled |-> stEnabled, config |-> stConfig]
  /\ candidates' = Candidates(definitions, name)
  /\ emIdx' = 1
  /\ insights' = <<>>
  /\ permissionDecision' = NoDecision
  /\ aborted' = FALSE
  /\ calls' = <<>>
  /\ skipped' = {}
  /\ failedBlocking' = {}
  /\ UNCHANGED <<definitions, stEnabled, stConfig, warnedInvalidConfig, asyncRuns,
                 onInsightLog>>
  /\ UNCHANGED <<warnLog, outcome, streak>>
  /\ UNCHANGED lateRuns
  /\ UNCHANGED <<sessionVars, creationVars>>

AtCandidate == emPc = "loop" /\ emIdx <= Len(candidates)

\* the invocation plugin.onEvent(event, config) inside run(), with the
\* resolveConfig call that precedes it
Invoke(plugin) ==
  /\ calls' = Append(calls, [id |-> plugin.id, priority |-> plugin.priority,
                             pos |-> IndexOf(plugin.id), blocking |-> plugin.blocking,
                             config |-> resolveConfig(plugin, emState.config[plugin.id]),
                             result |-> Pending])
  /\ warnedInvalidConfig' =
       ResolveWarned(plugin, emState.config[plugin.id], warnedInvalidConfig)
  /\ stConfig' = ResolveStore(plugin, emState.config[plugin.id], stConfig)
  /\ warnLog' =
       ResolveWarnLog(plugin, emState.config[plugin.id], warnedInvalidConfig, warnLog)

\* if (!enabled) continue
EmitSkipDisabled ==
  /\ AtCandidate
  /\ ~IsEnabled(candidates[emIdx], emState)
  /\ emIdx' = emIdx + 1
  /\ skipped' = skipped \cup {candidates[emIdx].id}
  /\ UNCHANGED <<definitions, stEnabled, stConfig, warnedInvalidConfig, emPc, emEvent,
                 emState, candidates, insights, permissionDecision, aborted, asyncRuns,
                 onInsightLog, calls, failedBlocking>>
  /\ UNCHANGED <<warnLog, outcome, streak>>
  /\ UNCHANGED lateRuns
  /\ UNCHANGED <<sessionVars, creationVars>>

\* if (!plugin.blocking) { run().then(...).catch(...); continue }
EmitRunNonBlocking ==
  /\ AtCandidate
  /\ IsEnabled(candidates[emIdx], emState)
  /\ ~IsBlocking(candidates[emIdx])
  /\ Invoke(candidates[emIdx])
  /\ asyncRuns' = asyncRuns \cup {candidates[emIdx].id}
  /\ emIdx' = emIdx + 1
  /\ UNCHANGED <<definitions, stEnabled, emPc, emEvent, emState, candidates, insights,
                 permissionDecision, aborted, onInsightLog, skipped, failedBlocking>>
  /\ UNCHANGED <<outcome, streak>>
  /\ UNCHANGED lateRuns
  /\ UNCHANGED <<sessionVars, creationVars>>

\* run() of a non-blocking plugin whose onEvent throws synchronously: the call
\* is outside any try block, so the exception leaves emit
EmitNonBlockingThrows ==
  /\ AtCandidate
  /\ IsEnabled(candidates[emIdx], emState)
  /\ ~IsBlocking(candidates[emIdx])
  /\ Invoke(candidates[emIdx])
  /\ emPc' = "rejected"
  /\ UNCHANGED <<definitions, stEnabled, emEvent, emState, candidates, emIdx, insights,
                 permissionDecision, aborted, asyncRuns, onInsightLog, skipped,
                 failedBlocking>>
  /\ UNCHANGED <<outcome, streak>>
  /\ UNCHANGED lateRuns
  /\ UNCHANGED <<sessionVars, creationVars>>

\* try { result = await run() }: the invocation, suspended on the await
EmitInvokeBlocking ==
  /\ AtCandidate
  /\ IsEnabled(candidates[emIdx], emState)
  /\ IsBlocking(candidates[emIdx])
  /\ Invoke(candidates[emIdx])
  /\ emPc' = "await"
  /\ UNCHANGED <<definitions, stEnabled, emEvent, emState, candidates, emIdx, insights,
                 permissionDecision, aborted, asyncRuns, onInsightLog, skipped,
                 failedBlocking>>
  /\ UNCHANGED <<outcome, streak>>
  /\ UNCHANGED lateRuns
  /\ UNCHANGED <<sessionVars, creationVars>>

StreakAfterFailure(id) ==
  IF id \in WatchedIds /\ streak[id] < DegradedAfter
    THEN [streak EXCEPT ![id] = @ + 1]
    ELSE streak

StreakAfterSuccess(id) ==
  IF id \in WatchedIds THEN [streak EXCEPT ![id] = 0] ELSE streak

\* the catch block of the blocking path
CatchBlocking(plugin, kind) ==
  /\ insights' = Append(insights, toPluginErrorInsight(plugin.id, kind))
  /\ failedBlocking' = failedBlocking \cup {plugin.id}
  /\ streak' = StreakAfterFailure(plugin.id)
  /\ IF FailPolicyOf(plugin) = "abort_current_action"
       THEN aborted' = TRUE /\ emPc' = "resolved" /\ emIdx' = emIdx
       ELSE aborted' = aborted /\ emPc' = "loop" /\ emIdx' = emIdx + 1

\* a blocking plugin whose onEvent throws synchronously inside the try block
EmitBlockingThrows ==
  /\ AtCandidate
  /\ IsEnabled(candidates[emIdx], emState)
  /\ IsBlocking(candidates[emIdx])
  /\ Invoke(candidates[emIdx])
  /\ CatchBlocking(candidates[emIdx], "throw")
  /\ UNCHANGED <<definitions, stEnabled, emEvent, emState, candidates,
                 permissionDecision, asyncRuns, onInsightLog, skipped>>
  /\ UNCHANGED outcome
  /\ UNCHANGED lateRuns
  /\ UNCHANGED <<sessionVars, creationVars>>

\* the awaited run rejects: the plugin's promise rejected, or the timer fired
EmitBlockingFailed(kind) ==
  /\ emPc = "await"
  /\ kind \in {"reject", "timeout"}
  /\ kind = "timeout" => TimerArmed(timeoutMs(candidates[emIdx]))
  /\ CatchBlocking(candidates[emIdx], kind)
  /\ UNCHANGED <<definitions, stEnabled, stConfig, warnedInvalidConfig, emEvent, emState,
                 candidates, permissionDecision, asyncRuns, onInsightLog, calls, skipped>>
  /\ UNCHANGED <<warnLog, outcome>>
  /\ lateRuns' = IF kind = "timeout"
                    THEN lateRuns \cup {TimedOut(candidates[emIdx])}
                    ELSE lateRuns
  /\ UNCHANGED <<sessionVars, creationVars>>

\* the awaited run resolves with result
EmitBlockingFulfilled(result) ==
  /\ emPc = "await"
  /\ result \in ResultsOf(candidates[emIdx])
  /\ emPc' = "loop"
  /\ emIdx' = emIdx + 1
  /\ insights' = IF ~result.void /\ result.insight
                   THEN Append(insights, PluginInsight(candidates[emIdx].id))
                   ELSE insights
  /\ permissionDecision' =
       MergeDecision(permissionDecision, result, candidates[emIdx].id)
  /\ calls' = [calls EXCEPT ![Len(calls)].result = result]
  /\ UNCHANGED <<definitions, stEnabled, stConfig, warnedInvalidConfig, emEvent, emState,
                 candidates, aborted, asyncRuns, onInsightLog, skipped, failedBlocking>>
  /\ streak' = StreakAfterSuccess(candidates[emIdx].id)
  /\ UNCHANGED <<warnLog, outcome>>
  /\ UNCHANGED lateRuns
  /\ UNCHANGED <<sessionVars, creationVars>>

\* return { insights, permissionDecision, aborted } after the loop ran out
EmitReturn ==
  /\ emPc = "loop"
  /\ emIdx > Len(candidates)
  /\ emPc' = "resolved"
  /\ UNCHANGED <<definitions, stEnabled, stConfig, warnedInvalidConfig, emEvent, emState,
                 candidates, emIdx, insights, permissionDecision, aborted, asyncRuns,
                 onInsightLog, calls, skipped, failedBlocking>>
  /\ UNCHANGED <<warnLog, outcome, streak>>
  /\ UNCHANGED lateRuns
  /\ UNCHANGED <<sessionVars, creationVars>>

\* the call is over: emit has settled, every run it started has settled (the
\* timer of runWithTimeout bounds each), and its locals are gone
EmitSettled ==
  /\ emPc \in {"resolved", "rejected"}
  /\ asyncRuns = {}
  /\ emPc' = "idle"
  /\ emEvent' = "none"
  /\ candidates' = <<>>
  /\ emIdx' = 1
  /\ insights' = <<>>
  /\ permissionDecision' = NoDecision
  /\ aborted' = FALSE
  /\ calls' = <<>>
  /\ skipped' = {}
  /\ failedBlocking' = {}
  /\ emState' = NoSnapshot
  /\ onInsightLog' = <<>>
  /\ UNCHANGED <<definitions, stEnabled, stConfig, warnedInvalidConfig, asyncRuns>>
  /\ UNCHANGED <<warnLog, outcome, streak>>
  /\ lateRuns' = {}
  /\ UNCHANGED <<sessionVars, creationVars>>

\* .then((result) => { for (const insight of result.insights) options.onInsight?.(insight) })
AsyncFulfilled(run, result) ==
  /\ Suspended
  /\ run \in asyncRuns
  /\ result \in ResultsOf(definitions[IndexOf(run)])
  /\ asyncRuns' = asyncRuns \ {run}
  /\ onInsightLog' = IF ~result.void /\ result.insight
                       THEN Append(onInsightLog, PluginInsight(run))
                       ELSE onInsightLog
  /\ UNCHANGED <<definitions, stEnabled, stConfig, warnedInvalidConfig, emPc, emEvent,
                 emState, candidates, emIdx, insights, permissionDecision, aborted, calls,
                 skipped, failedBlocking>>
  /\ UNCHANGED <<warnLog, outcome, streak>>
  /\ UNCHANGED lateRuns
  /\ UNCHANGED <<sessionVars, creationVars>>

\* the promise of a plugin settles after the timer of its run has fired:
\* resolve and reject of the promise runWithTimeout returned are without
\* effect, as is clearTimeout
LateResult(run) ==
  /\ Suspended
  /\ run \in lateRuns
  /\ lateRuns' = lateRuns \ {run}
  /\ UNCHANGED <<definitions, stEnabled, stConfig, warnedInvalidConfig>>
  /\ UNCHANGED emitVars
  /\ UNCHANGED <<warnLog, outcome, streak>>
  /\ UNCHANGED <<sessionVars, creationVars>>

\* .catch((err) => options.onInsight?.(toPluginErrorInsight(plugin.id, event, err)))
AsyncFailed(run, kind) ==
  /\ run \in asyncRuns
  /\ kind \in {"reject", "timeout"}
  /\ kind = "timeout" => TimerArmed(timeoutMs(definitions[IndexOf(run)]))
  /\ Suspended
  /\ asyncRuns' = asyncRuns \ {run}
  /\ onInsightLog' = Append(onInsightLog, toPluginErrorInsight(run, kind))
  /\ UNCHANGED <<definitions, stEnabled, stConfig, warnedInvalidConfig, emPc, emEvent,
                 emState, candidates, emIdx, insights, permissionDecision, aborted, calls,
                 skipped, failedBlocking>>
  /\ UNCHANGED <<warnLog, outcome, streak>>
  /\ lateRuns' = IF kind = "timeout"
                    THEN lateRuns \cup {TimedOut(definitions[IndexOf(run)])}
                    ELSE lateRuns
  /\ UNCHANGED <<sessionVars, creationVars>>

vars == <<bridgeVars, wireVars, clientVars, pluginVars, creationVars>>

\* no body: no pipeline run has been requested
\* the locals tempId, containerInfo and session of _run before they are set
NoRun == [tempId |-> "none", containerId |-> 0, sessionId |-> "none"]

NoBody ==
  [backend |-> "none", branch |-> "none", useWorktree |-> FALSE, cwd |-> FALSE,
   image |-> "none", initScript |-> FALSE, auth |-> FALSE]

PipelineInit ==
  /\ plPc = "idle"
  /\ plBody = NoBody
  /\ plLog = <<>>
  /\ plResult = "none"
  /\ plRun = NoRun

MaxContainers == 2   \* containers the runtime creates in one run of the model

SessionKeys == {"k1", "k2"}

ContainerIds == 1 .. MaxContainers

\* containers.get(key) === undefined
NoContainer == [containerId |-> 0, state |-> "none", portMappings |-> {}]

\* no call yet
NoCall == [op |-> "none", error |-> "none", count |-> 0]

\* private containers = new Map(); no state file written yet
ContainerInit ==
  /\ containers = [k \in SessionKeys |-> NoContainer]
  /\ docker = [id \in ContainerIds |-> "missing"]
  /\ ctNext = 1
  /\ stateFile = [status |-> "missing", entries |-> {}]
  /\ ctOutcome = NoCall

WorktreePaths == {"wt-a", "wt-b"}

\* the branch a session is created with, and the branches a worktree can be
\* pinned to: none recorded, the requested one, or one the companion derived
\* from it
Branches == {"feat"}

ActualBranches == {"none", "feat", "feat-wt"}

NoMapping == [path |-> "none", branch |-> "none", actualBranch |-> "none"]

NoCleanup ==
  [route |-> "none", session |-> "none", returned |-> "none", removed |-> "none",
   force |-> FALSE, dirty |-> FALSE, mapping |-> NoMapping, branchDeleted |-> "none"]

WorktreeInit ==
  /\ wtMappings = [k \in SessionKeys |-> NoMapping]
  /\ worktrees = [path \in WorktreePaths |-> "absent"]
  /\ wtOutcome = NoCleanup

MaxElapsed == 2      \* the largest elapsed_time_seconds a tool_progress carries

ToolSessions == {"s1", "s2"}

ToolUseIds == {"toolu_1", "toolu_2"}

\* the store has no entry for the tool_use_id
NoProgress == 0

\* an incoming message, reduced to what the tool-progress handling reads:
\* the tool of a tool_progress, the tool_use_ids of the tool_result blocks
\* of an assistant message, whether the last message of a message_history
\* is a result, and the events of an event_replay
Message(type, tool, elapsed, results, lastIsResult, events) ==
  [type |-> type, tool |-> tool, elapsed |-> elapsed, results |-> results,
   lastIsResult |-> lastIsResult, events |-> events]

NoMessage == Message("none", "none", 0, {}, FALSE, <<>>)

ToolInit ==
  /\ toolProgress = [sessionId \in ToolSessions |-> [id \in ToolUseIds |-> NoProgress]]
  /\ tpLast = [session |-> "none", msg |-> NoMessage, removed |-> {}]

MaxRestarts == 1     \* server restarts in one run of the model

\* no socket has been closed yet, the bridge is the first one of the session
ReconnectInit ==
  /\ disconnecting = {}
  /\ reconnectOwed = FALSE
  /\ bridgeRestarts = 0

MaxProxySockets == 4 \* WebSockets the proxy creates in one run of the model
MaxLines == 2        \* lines readline delivers in one run of the model
MaxTicks == 4        \* how far the clock advances, in units of 100 ms

ProxySockets == 1 .. MaxProxySockets

\* the proxy after the script ran to its end: the first connect() has
\* created a WebSocket and nothing has been read yet
ProxyInit ==
  /\ pxSock = [id \in ProxySockets |-> IF id = 1 THEN "connecting" ELSE "none"]
  /\ pxWs = 1
  /\ pxOpened = FALSE
  /\ pxExit = "running"
  /\ pxQueue = <<>>
  /\ pxAttempt = 1
  /\ pxTimers = <<>>
  /\ pxNow = 0
  /\ pxRead = <<>>
  /\ pxSent = <<>>

PluginInit ==
  /\ definitions = getBuiltinPlugins
  /\ stEnabled = [id \in PluginIds |-> "unset"]
  /\ stConfig = [id \in PluginIds |-> "unset"]
  /\ warnedInvalidConfig = {}
  /\ emPc = "idle"
  /\ emEvent = "none"
  /\ emState = NoSnapshot
  /\ candidates = <<>>
  /\ emIdx = 1
  /\ insights = <<>>
  /\ permissionDecision = NoDecision
  /\ aborted = FALSE
  /\ asyncRuns = {}
  /\ onInsightLog = <<>>
  /\ calls = <<>>
  /\ skipped = {}
  /\ failedBlocking = {}
  /\ warnLog = [id \in PluginIds |-> 0]
  /\ outcome = Returned
  /\ streak = [id \in WatchedIds |-> 0]
  /\ lateRuns = {}

PluginNext ==
  \/ \E plugin \in TestPlugins : Register(plugin)
  \/ \E id \in PluginIds, enabled \in {"true", "false"} : SetEnabled(id, enabled)
  \/ \E name \in Events : EmitStart(name)
  \/ EmitSkipDisabled
  \/ EmitRunNonBlocking
  \/ EmitNonBlockingThrows
  \/ EmitInvokeBlocking
  \/ EmitBlockingThrows
  \/ \E kind \in {"reject", "timeout"} : EmitBlockingFailed(kind)
  \/ \E result \in Results : EmitBlockingFulfilled(result)
  \/ EmitReturn
  \/ EmitSettled
  \/ \E run \in asyncRuns, result \in Results : AsyncFulfilled(run, result)
  \/ \E run \in asyncRuns, kind \in {"reject", "timeout"} : AsyncFailed(run, kind)

(***************************************************************************)
(* Session bridge and browser client: bounds                               *)
(***************************************************************************)
MaxSeq == 3          \* backend events per run
RingCapacity == 2    \* envelopes the replay ring keeps (about 600 in production)
MaxSockets == 3      \* WebSockets the browser opens per run

Socks == 1 .. MaxSockets

\* a frame bridge -> browser; seq 0: the frame carries no seq
Frame(type, seq, events) == [type |-> type, seq |-> seq, events |-> events]

Envelope(seq, type, rid) == [seq |-> seq, type |-> type, request_id |-> rid]

(***************************************************************************)
(* WsBridge: sequencing, replay ring, resume protocol                      *)
(***************************************************************************)
\* faulty variant of NextSeq: the counter is read but not advanced
NextSeqFromZero(n) == n

\* (a) assign next seq: the first envelope of a bridge gets 1
NextSeq(n) == n + 1

\* (d) append to ring; eviction is FIFO by capacity
RingAppend(r, env) ==
  IF Len(r) < RingCapacity THEN Append(r, env) ELSE Append(Tail(r), env)

\* seq of the oldest envelope the ring still holds (brSeq + 1 when empty)
Earliest == IF ring = <<>> THEN brSeq + 1 ELSE ring[1].seq

\* faulty variant of InsideRing: every subscriber is answered with a replay
ReplayAlways(lastSeq) == TRUE

\* "last_seq is inside the ring": not 0, not older than the ring's tail
InsideRing(lastSeq) ==
  /\ lastSeq # 0
  /\ lastSeq + 1 >= Earliest
  /\ lastSeq <= brSeq

MissedEvents(lastSeq) == SelectSeq(ring, LAMBDA e : e.seq > lastSeq)

\* step 3 of the resume protocol: the one frame that answers session_subscribe
SubscribeReply(lastSeq) ==
  IF InsideRing(lastSeq)
    THEN Frame("event_replay", 0, MissedEvents(lastSeq))
    ELSE Frame("message_history", 0, <<>>)

\* (e) deliver to every subscriber
FanOut(c, subs, frame) ==
  [s \in Socks |-> IF s \in subs THEN Append(c[s], frame) ELSE c[s]]

\* fan-in steps (a), (d), (e) of one backend event
FanIn(type, rid) ==
  LET env == Envelope(NextSeq(brSeq), type, rid) IN
    /\ brSeq' = env.seq
    /\ stamped' = Append(stamped, env.seq)
    /\ ring' = RingAppend(ring, env)
    /\ chan' = FanOut(chan, subscribed, Frame(type, env.seq, <<>>))

\* fan-in of one backend event that is no permission event
BackendEvent(type) ==
  /\ brSeq < MaxSeq
  /\ FanIn(type, "none")
  /\ UNCHANGED <<subscribed, pendingPermissions, seenClientMsgIds, backendLog, received, up>>
  /\ UNCHANGED clientVars
  /\ UNCHANGED <<pluginVars, creationVars>>

\* the bridge reads session_subscribe{last_seq} from socket s
HandleSubscribe(s) ==
  /\ sockState[s] = "open"
  /\ up[s] # <<>>
  /\ Head(up[s]).type = "session_subscribe"
  /\ up' = [up EXCEPT ![s] = Tail(@)]
  /\ subscribed' = subscribed \cup {s}
  /\ chan' = [chan EXCEPT ![s] = Append(@, SubscribeReply(Head(up[s]).last_seq))]
  /\ UNCHANGED <<brSeq, ring, stamped, pendingPermissions, seenClientMsgIds, backendLog, received>>
  /\ UNCHANGED clientVars
  /\ UNCHANGED <<pluginVars, creationVars>>

(***************************************************************************)
(* Browser client: sequence tracking (ws.ts)                               *)
(***************************************************************************)
\* getLastSeq(sessionId): the value returned
getLastSeq ==
  IF lastSeqBySession >= 0 THEN lastSeqBySession
  ELSE IF storageAvailable /\ lsSeq >= 0 THEN lsSeq
  ELSE 0

\* getLastSeq(sessionId): the cache entry it leaves (none when getItem throws)
CacheAfterGet ==
  IF lastSeqBySession >= 0 THEN lastSeqBySession
  ELSE IF storageAvailable THEN getLastSeq
  ELSE -1

\* setLastSeq: what localStorage holds afterwards (setItem errors are ignored)
StoredAfterSet(seq) == IF storageAvailable THEN seq ELSE lsSeq

\* handleParsedMessage: if (data.seq <= previous) return
StaleLive(seq, previous) == seq <= previous

\* handleEventReplay: if (evt.seq <= previous) continue
StaleReplay(seq, previous) == seq <= previous

\* handleEventReplay: the seqs whose handler runs, given the cursor before
RECURSIVE ReplayProcessed(_, _)
ReplayProcessed(events, previous) ==
  IF events = <<>> THEN <<>>
  ELSE IF StaleReplay(Head(events).seq, previous)
         THEN ReplayProcessed(Tail(events), previous)
         ELSE <<Head(events).seq>> \o ReplayProcessed(Tail(events), Head(events).seq)

\* handleEventReplay: the seqs its loop skips
RECURSIVE ReplaySkipped(_, _)
ReplaySkipped(events, previous) ==
  IF events = <<>> THEN {}
  ELSE IF StaleReplay(Head(events).seq, previous)
         THEN {Head(events).seq} \cup ReplaySkipped(Tail(events), previous)
         ELSE ReplaySkipped(Tail(events), Head(events).seq)

\* ackSeq -> sendToSession: {type: "session_ack", last_seq: seq} is sent only on
\* an open registered socket; the bridge takes acks as advisory
SendAck(a, seq) ==
  IF sockets # 0 /\ sockState[sockets] = "open" THEN Append(a, seq) ELSE a

\* a message event fires only while readyState is OPEN
HasFrame(s) == sockState[s] = "open" /\ chan[s] # <<>>

\* ws.onmessage -> handleMessage -> handleParsedMessage, for a sequenced envelope
ReceiveEnvelope(s) ==
  /\ HasFrame(s)
  /\ Head(chan[s]).seq > 0
  /\ chan' = [chan EXCEPT ![s] = Tail(@)]
  /\ LET seq == Head(chan[s]).seq IN
       IF StaleLive(seq, getLastSeq)
         THEN /\ lastSeqBySession' = CacheAfterGet
              /\ staleDropped' = staleDropped \cup {seq}
              /\ UNCHANGED <<lsSeq, handled, acked>>
         ELSE /\ lastSeqBySession' = seq
              /\ lsSeq' = StoredAfterSet(seq)
              /\ acked' = SendAck(acked, seq)
              /\ handled' = Append(handled, seq)
              /\ UNCHANGED staleDropped
  /\ UNCHANGED <<up, sockets, sockState, reconnectTimers, storageAvailable,
                 clientMsgCounter, sentCmds>>
  /\ UNCHANGED bridgeVars
  /\ UNCHANGED <<pluginVars, creationVars>>

\* handleMessageHistory: the frame has no seq and the cursor is not touched
ReceiveHistory(s) ==
  /\ HasFrame(s)
  /\ Head(chan[s]).type = "message_history"
  /\ chan' = [chan EXCEPT ![s] = Tail(@)]
  /\ UNCHANGED up
  /\ UNCHANGED clientVars
  /\ UNCHANGED bridgeVars
  /\ UNCHANGED <<pluginVars, creationVars>>

\* handleEventReplay
ReceiveReplay(s) ==
  /\ HasFrame(s)
  /\ Head(chan[s]).type = "event_replay"
  /\ chan' = [chan EXCEPT ![s] = Tail(@)]
  /\ staleDropped' = staleDropped \cup ReplaySkipped(Head(chan[s]).events, getLastSeq)
  /\ LET done == ReplayProcessed(Head(chan[s]).events, getLastSeq) IN
       IF done = <<>>
         THEN /\ lastSeqBySession' =
                   IF Head(chan[s]).events = <<>> THEN lastSeqBySession
                   ELSE CacheAfterGet
              /\ UNCHANGED <<lsSeq, handled, acked>>
         ELSE /\ lastSeqBySession' = done[Len(done)]
              /\ lsSeq' = StoredAfterSet(done[Len(done)])
              /\ acked' = SendAck(acked, done[Len(done)])
              /\ handled' = handled \o done
  /\ UNCHANGED <<up, sockets, sockState, reconnectTimers, storageAvailable,
                 clientMsgCounter, sentCmds>>
  /\ UNCHANGED bridgeVars
  /\ UNCHANGED <<pluginVars, creationVars>>

(***************************************************************************)
(* Browser client: connection management (ws.ts)                           *)
(***************************************************************************)
FreshSock == CHOOSE s \in Socks : sockState[s] = "unused" /\
                                  \A t \in Socks : sockState[t] = "unused" => s <= t

\* connectSession body: new WebSocket(...); sockets.set(sessionId, ws)
DoConnect ==
  /\ sockets' = FreshSock
  /\ sockState' = [sockState EXCEPT ![FreshSock] = "connecting"]

\* connectSession(sessionId)
ConnectSession ==
  /\ sockets = 0
  /\ \E s \in Socks : sockState[s] = "unused"
  /\ DoConnect
  /\ reconnectOwed' = FALSE
  /\ UNCHANGED <<reconnectTimers, lastSeqBySession, lsSeq, storageAvailable,
                 clientMsgCounter, handled, staleDropped, acked, sentCmds>>
  /\ UNCHANGED <<bridgeVars, wireVars>>
  /\ UNCHANGED <<pluginVars, besideSession, disconnecting>>

\* ws.onopen
SocketOpen(s) ==
  /\ sockState[s] = "connecting"
  /\ sockState' = [sockState EXCEPT ![s] = "open"]
  /\ up' = [up EXCEPT ![s] =
              Append(@, [type |-> "session_subscribe", last_seq |-> getLastSeq,
                         request_id |-> "none"])]
  /\ lastSeqBySession' = CacheAfterGet
  /\ reconnectTimers' = FALSE
  /\ UNCHANGED <<sockets, lsSeq, storageAvailable, clientMsgCounter, handled, staleDropped, acked,
                 sentCmds>>
  /\ UNCHANGED chan
  /\ UNCHANGED bridgeVars
  /\ UNCHANGED <<pluginVars, creationVars>>

\* ws.close(): readyState leaves OPEN, so no frame of s reaches onmessage any
\* more; the frames of s still on the wire are lost with the connection
CloseWire(s) ==
  /\ subscribed' = subscribed \ {s}
  /\ up' = [up EXCEPT ![s] = <<>>]
  /\ chan' = [chan EXCEPT ![s] = <<>>]
  /\ UNCHANGED <<brSeq, ring, stamped, pendingPermissions, seenClientMsgIds,
                 backendLog, received>>

\* ws.onerror: ws.close()
SocketError(s) ==
  /\ sockState[s] \in {"connecting", "open"}
  /\ sockState' = [sockState EXCEPT ![s] = "closing"]
  /\ CloseWire(s)
  /\ UNCHANGED <<sockets, reconnectTimers, lastSeqBySession, lsSeq, storageAvailable,
                 clientMsgCounter, handled, staleDropped, acked, sentCmds>>
  /\ UNCHANGED <<pluginVars, creationVars>>

\* the connection of s ends (close handshake done, or the network dropped it):
\* the bridge forgets the subscriber, ws.onclose runs in the browser
SocketClose(s) ==
  /\ sockState[s] \in {"connecting", "open", "closing"}
  /\ sockState' = [sockState EXCEPT ![s] = "closed"]
  /\ CloseWire(s)
  /\ sockets' = 0
  /\ reconnectTimers' = TRUE
  /\ disconnecting' = disconnecting \ {s}
  /\ reconnectOwed' = IF s \in disconnecting THEN reconnectOwed ELSE TRUE
  /\ UNCHANGED <<lastSeqBySession, lsSeq, storageAvailable, clientMsgCounter, handled,
                 staleDropped, acked, sentCmds>>
  /\ UNCHANGED <<pluginVars, besideSession>>

\* the timer of scheduleReconnect fires (the session is known and not archived)
ReconnectTimerFires ==
  /\ reconnectTimers
  /\ reconnectTimers' = FALSE
  /\ IF sockets = 0 /\ \E s \in Socks : sockState[s] = "unused"
       THEN DoConnect
       ELSE UNCHANGED <<sockets, sockState>>
  /\ reconnectOwed' = FALSE
  /\ UNCHANGED <<lastSeqBySession, lsSeq, storageAvailable, clientMsgCounter, handled,
                 staleDropped, acked, sentCmds>>
  /\ UNCHANGED <<bridgeVars, wireVars>>
  /\ UNCHANGED <<pluginVars, besideSession, disconnecting>>

\* disconnectSession(sessionId)
DisconnectSession ==
  /\ reconnectTimers' = FALSE
  /\ sockets' = 0
  /\ IF sockets # 0 /\ sockState[sockets] \in {"connecting", "open"}
       THEN /\ sockState' = [sockState EXCEPT ![sockets] = "closing"]
            /\ CloseWire(sockets)
       ELSE UNCHANGED <<sockState, bridgeVars, wireVars>>
  /\ disconnecting' = IF sockets # 0 THEN disconnecting \cup {sockets} ELSE disconnecting
  /\ reconnectOwed' = FALSE
  /\ lastSeqBySession' = -1
  /\ UNCHANGED <<lsSeq, storageAvailable, clientMsgCounter, handled, staleDropped, acked,
                 sentCmds>>
  /\ UNCHANGED <<pluginVars, besideSession>>

SessionInit ==
  /\ brSeq = 0
  /\ ring = <<>>
  /\ stamped = <<>>
  /\ subscribed = {}
  /\ pendingPermissions = {}
  /\ seenClientMsgIds = <<>>
  /\ backendLog = <<>>
  /\ received = <<>>
  /\ chan = [s \in Socks |-> <<>>]
  /\ up = [s \in Socks |-> <<>>]
  /\ sockets = 0
  /\ sockState = [s \in Socks |-> "unused"]
  /\ reconnectTimers = FALSE
  /\ lastSeqBySession = -1
  /\ lsSeq = -1
  /\ clientMsgCounter = 0
  /\ handled = <<>>
  /\ staleDropped = {}
  /\ acked = <<>>
  /\ sentCmds = <<>>

Init ==
  /\ SessionInit
  /\ storageAvailable \in BOOLEAN
  /\ PluginInit
  /\ PipelineInit
  /\ ContainerInit
  /\ WorktreeInit
  /\ ProxyInit
  /\ ToolInit
  /\ ReconnectInit

Next ==
  \/ \E type \in {"assistant"} : BackendEvent(type)
  \/ \E s \in Socks : HandleSubscribe(s)
  \/ \E s \in Socks : ReceiveEnvelope(s)
  \/ \E s \in Socks : ReceiveHistory(s)
  \/ \E s \in Socks : ReceiveReplay(s)
  \/ ConnectSession
  \/ \E s \in Socks : SocketOpen(s)
  \/ \E s \in Socks : SocketError(s)
  \/ \E s \in Socks : SocketClose(s)
  \/ ReconnectTimerFires
  \/ DisconnectSession

Spec == Init /\ [][Next]_vars

\* the server process restarts while the browser page stays: every connection
\* of the old process has ended, and the session gets a newly constructed
\* WsBridge (seq starts at 1 again, the ring is empty, nobody is subscribed).
\* The histories of the envelopes stamped, handled and dropped start over
\* with the new bridge; the browser keeps its cursor.
BridgeRestart ==
  /\ bridgeRestarts < MaxRestarts
  /\ \A s \in Socks : sockState[s] \in {"unused", "closed"}
  /\ bridgeRestarts' = bridgeRestarts + 1
  /\ brSeq' = 0
  /\ ring' = <<>>
  /\ stamped' = <<>>
  /\ subscribed' = {}
  /\ pendingPermissions' = {}
  /\ seenClientMsgIds' = <<>>
  /\ handled' = <<>>
  /\ staleDropped' = {}
  /\ UNCHANGED <<backendLog, received, wireVars, sockets, sockState, reconnectTimers,
                 lastSeqBySession, lsSeq, storageAvailable, clientMsgCounter, acked,
                 sentCmds>>
  /\ UNCHANGED <<pluginVars, pipelineVars, containerVars, worktreeVars, proxyVars,
                 toolVars, reconnectVars>>

RestartNext ==
  \/ Next
  \/ BridgeRestart

RestartSpec == Init /\ [][RestartNext]_vars

(***************************************************************************)
(* Outbound commands: sendToSession (ws.ts), dedup and permission          *)
(* mediation of the bridge                                                 *)
(***************************************************************************)
DedupWindow == 1     \* client_msg_ids the bridge remembers per session
MaxCommands == 3     \* commands per run, from this browser and from the others

RequestIds == {"r1", "r2"}

\* a client_msg_id: who made it and its number, NoId when the field is missing
MsgId(kind, n) == [kind |-> kind, n |-> n]

NoId == MsgId("none", 0)

\* client_msg_ids a caller passes in, e.g. when it sends a command again
GivenIds == {MsgId("given", 1)}

IDEMPOTENT_OUTGOING_TYPES ==
  {"user_message", "permission_response", "interrupt", "set_model",
   "set_permission_mode", "mcp_get_status", "mcp_toggle", "mcp_reconnect",
   "mcp_set_servers"}

Command(type, rid, id) == [type |-> type, request_id |-> rid, client_msg_id |-> id]

\* faulty variant of nextClientMsgId: the counter is not part of the id
ReusedClientMsgId(counter) == MsgId("cmsg", 1)

\* nextClientMsgId(): `cmsg-${Date.now()}-${++clientMsgCounter}`
nextClientMsgId(counter) == MsgId("cmsg", counter + 1)

\* sendToSession: the message that goes out
Outgoing(msg) ==
  IF msg.type \in IDEMPOTENT_OUTGOING_TYPES /\ msg.client_msg_id = NoId
    THEN [msg EXCEPT !.client_msg_id = nextClientMsgId(clientMsgCounter)]
    ELSE msg

\* commands issued so far: by this browser, and by the others
Issued ==
  Len(sentCmds) +
  Cardinality({i \in DOMAIN received : received[i].cmd.client_msg_id.kind = "other"})

\* sendToSession(sessionId, msg)
SendToSession(msg) ==
  /\ Issued < MaxCommands
  /\ sentCmds' = Append(sentCmds, [msg |-> msg, outgoing |-> Outgoing(msg)])
  /\ clientMsgCounter' = IF Outgoing(msg) = msg THEN clientMsgCounter
                         ELSE clientMsgCounter + 1
  /\ up' = IF sockets # 0 /\ sockState[sockets] = "open"
             THEN [up EXCEPT ![sockets] = Append(@, Outgoing(msg))]
             ELSE up
  /\ UNCHANGED <<sockets, sockState, reconnectTimers, lastSeqBySession, lsSeq,
                 storageAvailable, handled, staleDropped, acked>>
  /\ UNCHANGED chan
  /\ UNCHANGED bridgeVars
  /\ UNCHANGED <<pluginVars, creationVars>>

Range(seq) == {seq[i] : i \in DOMAIN seq}

\* request ids the backend has sent a permission_request for
Requested ==
  {backendLog[i].request_id :
     i \in {j \in DOMAIN backendLog : backendLog[j].type = "permission_request"}}

FromBackend(type, rid) ==
  [dir |-> "from", type |-> type, request_id |-> rid, client_msg_id |-> NoId]

ToBackend(cmd) ==
  [dir |-> "to", type |-> cmd.type, request_id |-> cmd.request_id,
   client_msg_id |-> cmd.client_msg_id]

\* a permission_request arrives: it is stored; a permissionDecision of the
\* plugin bus is delivered at once and the stored request removed
BackendPermissionRequest(rid, decision) ==
  /\ rid \notin Requested
  /\ FanIn("permission_request", rid)
  /\ IF decision = "none"
       THEN /\ pendingPermissions' = pendingPermissions \cup {rid}
            /\ backendLog' = Append(backendLog, FromBackend("permission_request", rid))
       ELSE /\ pendingPermissions' = pendingPermissions \ {rid}
            /\ backendLog' = backendLog \o
                 <<FromBackend("permission_request", rid),
                   ToBackend(Command("permission_response", rid, MsgId("plugin", 0)))>>
  /\ UNCHANGED <<subscribed, seenClientMsgIds, received, up>>
  /\ UNCHANGED clientVars
  /\ UNCHANGED <<pluginVars, creationVars>>

\* a permission_cancelled from the backend removes the pending request
BackendPermissionCancelled(rid) ==
  /\ rid \in Requested
  /\ FromBackend("permission_cancelled", rid) \notin Range(backendLog)
  /\ FanIn("permission_cancelled", rid)
  /\ pendingPermissions' = pendingPermissions \ {rid}
  /\ backendLog' = Append(backendLog, FromBackend("permission_cancelled", rid))
  /\ UNCHANGED <<subscribed, seenClientMsgIds, received, up>>
  /\ UNCHANGED clientVars
  /\ UNCHANGED <<pluginVars, creationVars>>

SeenIds == {seenClientMsgIds[i] : i \in DOMAIN seenClientMsgIds}

\* the bridge remembers seen ids for a bounded window
Remember(seen, id) ==
  IF Len(seen) < DedupWindow THEN Append(seen, id) ELSE Append(Tail(seen), id)

\* faulty variant of IsPending: the pending map is not consulted
AlwaysPending(rid) == TRUE

\* the request is stored and neither resolved nor cancelled
IsPending(rid) == rid \in pendingPermissions

\* the entry of the received history for cmd: whether it was forwarded, and
\* whether the request it answers was pending when it came in
Arrival(cmd, forwarded) ==
  [cmd |-> cmd, forwarded |-> forwarded,
   pending |-> cmd.request_id \in pendingPermissions]

\* what the bridge does with one command a browser sent
BridgeCommand(cmd) ==
  IF cmd.client_msg_id \in SeenIds
    THEN /\ received' = Append(received, Arrival(cmd, FALSE))
         /\ UNCHANGED <<seenClientMsgIds, pendingPermissions, backendLog>>
    ELSE /\ seenClientMsgIds' = Remember(seenClientMsgIds, cmd.client_msg_id)
         /\ IF cmd.type = "permission_response" /\ ~IsPending(cmd.request_id)
              THEN /\ received' = Append(received, Arrival(cmd, FALSE))
                   /\ UNCHANGED <<pendingPermissions, backendLog>>
              ELSE /\ received' = Append(received, Arrival(cmd, TRUE))
                   /\ pendingPermissions' = pendingPermissions \ {cmd.request_id}
                   /\ backendLog' = Append(backendLog, ToBackend(cmd))

\* the bridge reads a command from socket s
HandleCommand(s) ==
  /\ sockState[s] = "open"
  /\ up[s] # <<>>
  /\ Head(up[s]).type \in IDEMPOTENT_OUTGOING_TYPES
  /\ up' = [up EXCEPT ![s] = Tail(@)]
  /\ BridgeCommand(Head(up[s]))
  /\ UNCHANGED <<brSeq, ring, stamped, subscribed, chan>>
  /\ UNCHANGED clientVars
  /\ UNCHANGED <<pluginVars, creationVars>>

\* the bridge reads a permission_response that another browser sent
HandleOtherBrowserCommand(rid) ==
  /\ rid \in Requested
  /\ Issued < MaxCommands
  /\ BridgeCommand(Command("permission_response", rid, MsgId("other", 1)))
  /\ UNCHANGED <<brSeq, ring, stamped, subscribed, chan, up>>
  /\ UNCHANGED clientVars
  /\ UNCHANGED <<pluginVars, creationVars>>

\* the browser has connected and subscribed on socket 1 and has read the
\* message_history; the backend has sent nothing yet
CommandInit ==
  /\ brSeq = 0
  /\ ring = <<>>
  /\ stamped = <<>>
  /\ subscribed = {1}
  /\ pendingPermissions = {}
  /\ seenClientMsgIds = <<>>
  /\ backendLog = <<>>
  /\ received = <<>>
  /\ chan = [s \in Socks |-> <<>>]
  /\ up = [s \in Socks |-> <<>>]
  /\ sockets = 1
  /\ sockState = [s \in Socks |-> IF s = 1 THEN "open" ELSE "unused"]
  /\ reconnectTimers = FALSE
  /\ lastSeqBySession = 0
  /\ lsSeq = -1
  /\ storageAvailable = TRUE
  /\ clientMsgCounter = 0
  /\ handled = <<>>
  /\ staleDropped = {}
  /\ acked = <<>>
  /\ sentCmds = <<>>
  /\ PluginInit
  /\ PipelineInit
  /\ ContainerInit
  /\ WorktreeInit
  /\ ProxyInit
  /\ ToolInit
  /\ ReconnectInit

CommandNext ==
  \/ \E rid \in RequestIds, decision \in {"none", "allow"} :
       BackendPermissionRequest(rid, decision)
  \/ \E rid \in RequestIds : BackendPermissionCancelled(rid)
  \/ \E id \in GivenIds \cup {NoId} : SendToSession(Command("user_message", "none", id))
  \/ \E rid \in Requested : SendToSession(Command("permission_response", rid, NoId))
  \/ \E s \in Socks : HandleCommand(s)
  \/ \E rid \in RequestIds : HandleOtherBrowserCommand(rid)

CommandSpec == CommandInit /\ [][CommandNext]_vars

PluginSpecInit ==
  /\ PluginInit
  /\ SessionInit
  /\ storageAvailable = TRUE
  /\ PipelineInit
  /\ ContainerInit
  /\ WorktreeInit
  /\ ProxyInit
  /\ ToolInit
  /\ ReconnectInit

PluginSpec == PluginSpecInit /\ [][PluginNext]_vars

(***************************************************************************)
(* The bus with the timers of runWithTimeout: what the event loop of the   *)
(* server guarantees is that emit runs on between two awaits and that an   *)
(* armed timer fires; whether the promise of a plugin ever settles is up   *)
(* to the plugin.                                                          *)
(***************************************************************************)
TimeoutNext ==
  \/ \E plugin \in TestPlugins : Register(plugin)
  \/ \E name \in Events : EmitStart(name)
  \/ EmitSkipDisabled
  \/ EmitRunNonBlocking
  \/ EmitNonBlockingThrows
  \/ EmitInvokeBlocking
  \/ EmitBlockingThrows
  \/ \E kind \in {"reject", "timeout"} : EmitBlockingFailed(kind)
  \/ \E result \in Results : EmitBlockingFulfilled(result)
  \/ EmitReturn
  \/ EmitSettled
  \/ \E run \in asyncRuns, result \in Results : AsyncFulfilled(run, result)
  \/ \E run \in asyncRuns, kind \in {"reject", "timeout"} : AsyncFailed(run, kind)
  \/ \E run \in lateRuns : LateResult(run)

\* the synchronous stretches of emit
EmitAdvance ==
  \/ EmitSkipDisabled
  \/ EmitRunNonBlocking
  \/ EmitNonBlockingThrows
  \/ EmitInvokeBlocking
  \/ EmitBlockingThrows
  \/ EmitReturn

\* the timer of the awaited run fires
TimerFires == EmitBlockingFailed("timeout")

TimeoutSpec ==
  /\ PluginSpecInit
  /\ [][TimeoutNext]_vars
  /\ WF_vars(EmitAdvance)
  /\ WF_vars(TimerFires)

(***************************************************************************)
(* The manager over a state file that may hold a config its plugin         *)
(* rejects (manager.test.ts writes plugins.json before it builds the       *)
(* manager).                                                               *)
(***************************************************************************)
brokenPlugin ==
  [id |-> "broken-config-plugin", priority |-> 20, blocking |-> TRUE,
   failPolicy |-> "unset", defaultEnabled |-> TRUE, validate |-> "strict",
   events |-> {"session.created"}, timeoutMs |-> 0, mutation |-> "none",
   capabilities |-> Capabilities]

\* ids the callers of this run pass; broken-config-plugin is unknown until
\* it is registered, strict-plugin is never registered
ConfigIds == {"broken-config-plugin", "strict-plugin"}

RawConfigs == {"good", "bad"}

\* what plugins.json may hold for broken-config-plugin when the manager is built
PersistedConfigs == {"unset", "good", "bad"}

ConfigInit ==
  /\ definitions = getBuiltinPlugins
  /\ stEnabled = [id \in PluginIds |-> "unset"]
  /\ \E persisted \in PersistedConfigs :
       stConfig = [id \in PluginIds |->
                     IF id = "broken-config-plugin" THEN persisted ELSE "unset"]
  /\ warnedInvalidConfig = {}
  /\ emPc = "idle"
  /\ emEvent = "none"
  /\ emState = NoSnapshot
  /\ candidates = <<>>
  /\ emIdx = 1
  /\ insights = <<>>
  /\ permissionDecision = NoDecision
  /\ aborted = FALSE
  /\ asyncRuns = {}
  /\ onInsightLog = <<>>
  /\ calls = <<>>
  /\ skipped = {}
  /\ failedBlocking = {}
  /\ warnLog = [id \in PluginIds |-> 0]
  /\ outcome = Returned
  /\ streak = [id \in WatchedIds |-> 0]
  /\ lateRuns = {}
  /\ SessionInit
  /\ storageAvailable = TRUE
  /\ PipelineInit
  /\ ContainerInit
  /\ WorktreeInit
  /\ ProxyInit
  /\ ToolInit
  /\ ReconnectInit

ConfigNext ==
  \/ Register(brokenPlugin)
  \/ List
  \/ \E id \in ConfigIds, enabled \in {"true", "false"} : SetEnabled(id, enabled)
  \/ \E id \in ConfigIds, raw \in RawConfigs : UpdateConfig(id, raw)
  \/ \E id \in ConfigIds : DryRun(id, "session.created")
  \/ EmitStart("session.created")
  \/ EmitSkipDisabled
  \/ EmitInvokeBlocking
  \/ EmitBlockingThrows
  \/ \E kind \in {"reject", "timeout"} : EmitBlockingFailed(kind)
  \/ \E result \in Results : EmitBlockingFulfilled(result)
  \/ EmitReturn
  \/ EmitSettled

ConfigSpec == ConfigInit /\ [][ConfigNext]_vars

(***************************************************************************)
(* The bus under the plugins manager.test.ts registers for wildcard        *)
(* subscriptions, message middleware, capability grants and health.        *)
(***************************************************************************)
BusEvents == {"user.message.before_send", "permission.requested", "session.created"}

globalPlugin ==
  [id |-> "global-plugin", priority |-> 100, blocking |-> TRUE, failPolicy |-> "unset",
   defaultEnabled |-> TRUE, validate |-> "none", events |-> {"*"}, timeoutMs |-> 0,
   mutation |-> "prefix", capabilities |-> {"message:mutate"}]

projectPlugin ==
  [id |-> "project-plugin", priority |-> 50, blocking |-> TRUE, failPolicy |-> "unset",
   defaultEnabled |-> TRUE, validate |-> "none",
   events |-> {"user.message.before_send"}, timeoutMs |-> 0, mutation |-> "append",
   capabilities |-> {"message:mutate"}]

\* capabilities: what the plugin holds once the test has revoked its
\* permission:auto-decide grant
gatedPlugin ==
  [id |-> "gated-plugin", priority |-> 10, blocking |-> TRUE, failPolicy |-> "unset",
   defaultEnabled |-> TRUE, validate |-> "none", events |-> {"permission.requested"},
   timeoutMs |-> 0, mutation |-> "none", capabilities |-> {}]

\* a definition without a capabilities field holds every capability
flakyPlugin ==
  [id |-> "flaky-plugin", priority |-> 1, blocking |-> TRUE, failPolicy |-> "unset",
   defaultEnabled |-> TRUE, validate |-> "none", events |-> {"session.created"},
   timeoutMs |-> 0, mutation |-> "none", capabilities |-> Capabilities]

BusPlugins == {globalPlugin, projectPlugin, gatedPlugin, flakyPlugin}

\* the plugins a caller of this run switches on and off; every plugin of
\* the run is blocking
BusToggled == {"project-plugin"}

BusNext ==
  \/ \E plugin \in BusPlugins : Register(plugin)
  \/ \E id \in BusToggled, enabled \in {"true", "false"} : SetEnabled(id, enabled)
  \/ \E name \in BusEvents : EmitStart(name)
  \/ EmitSkipDisabled
  \/ EmitInvokeBlocking
  \/ EmitBlockingThrows
  \/ \E kind \in {"reject", "timeout"} : EmitBlockingFailed(kind)
  \/ \E result \in Results : EmitBlockingFulfilled(result)
  \/ EmitReturn
  \/ EmitSettled

BusSpec == PluginSpecInit /\ [][BusNext]_vars

(***************************************************************************)
(* ContainerManager (web/server/container-manager.ts)                      *)
(***************************************************************************)
\* values a caller can pass in config.ports: n, or n + 0.5 when not integer
PortChoices ==
  {[n |-> 0, integer |-> TRUE], [n |-> 1, integer |-> TRUE],
   [n |-> 65535, integer |-> TRUE], [n |-> 65536, integer |-> TRUE],
   [n |-> 1, integer |-> FALSE]}

\* the config.ports arrays tried: empty, each single value, and pairs
PortConfigs ==
  {{}} \cup {{port} : port \in PortChoices}
       \cup {{[n |-> 1, integer |-> TRUE], [n |-> 65535, integer |-> TRUE]},
             {[n |-> 1, integer |-> TRUE], [n |-> 65536, integer |-> TRUE]}}

\* faulty variant of ValidPort: no validation
AnyPort(port) == TRUE

\* !(!Number.isInteger(port) || port < 1 || port > 65535)
ValidPort(port) == port.integer /\ port.n >= 1 /\ port.n <= 65535

Tracked(map) == {k \in SessionKeys : map[k] # NoContainer}

\* how a call ended: the message of the Error it threw ("none": it
\* returned) and the number it returned
Outcome(op, error, count) == [op |-> op, error |-> error, count |-> count]

\* faulty variant of resolvePortMappings: the ports that did not resolve get
\* a mapping all the same
ResolveAll(ports, unresolved) == {port.n : port \in ports}

\* resolvePortMappings(containerId, ports): the container ports for which
\* `docker port` answered with a host port
resolvePortMappings(ports, unresolved) == {port.n : port \in ports \ unresolved}

\* createContainer(sessionId, hostCwd, config) with config.ports = ports.
\* fail: the sub-step that fails ("create", "start", "seed") or "none",
\* "start+rm" when the `docker rm -f` of the cleanup fails as well;
\* unresolved: the ports whose `docker port` fails or prints no host port
CreateFailures == {"none", "create", "start", "start+rm", "seed"}

CreateEffect(sessionId, ports, fail, unresolved) ==
  /\ containers[sessionId] = NoContainer
  /\ unresolved \subseteq ports
  /\ IF \E port \in ports : ~ValidPort(port)
       THEN /\ ctOutcome' = Outcome("createContainer", "Invalid port number", 0)
            /\ UNCHANGED <<containers, docker, ctNext>>
       ELSE IF fail = "create"
         THEN /\ ctOutcome' = Outcome("createContainer", "Failed to create container", 0)
              /\ UNCHANGED <<containers, docker, ctNext>>
         ELSE /\ ctNext <= MaxContainers
              /\ ctNext' = ctNext + 1
              /\ IF fail \in {"start", "start+rm"}
                   THEN /\ docker' = [docker EXCEPT ![ctNext] =
                                        IF fail = "start+rm" THEN "created" ELSE "missing"]
                        /\ ctOutcome' = Outcome("createContainer", "Failed to create container", 0)
                        /\ UNCHANGED containers
                   ELSE /\ docker' = [docker EXCEPT ![ctNext] = "running"]
                        /\ containers' =
                             [containers EXCEPT ![sessionId] =
                                [containerId |-> ctNext, state |-> "running",
                                 portMappings |-> resolvePortMappings(ports, unresolved)]]
                        /\ ctOutcome' = Outcome("createContainer", "none", 0)
  /\ UNCHANGED stateFile

\* createContainer called on its own
createContainer(sessionId, ports, fail, unresolved) ==
  /\ CreateEffect(sessionId, ports, fail, unresolved)
  /\ UNCHANGED <<sessionVars, pluginVars, adapterVars, pipelineVars, worktreeVars>>

\* faulty variant of RetrackEffect: the entry is set under the new key and
\* the old key is not deleted
RetrackKeepsOldKey(containerId, newSessionId) ==
  /\ ctOutcome' = Outcome("retrack", "none", 0)
  /\ LET holders == {k \in SessionKeys : containers[k].containerId = containerId}
     IN IF holders = {} THEN UNCHANGED containers
        ELSE \E oldKey \in holders :
               containers' = [containers EXCEPT ![newSessionId] = containers[oldKey]]
  /\ UNCHANGED <<docker, ctNext, stateFile>>

\* retrack(containerId, newSessionId)
RetrackEffect(containerId, newSessionId) ==
  /\ ctOutcome' = Outcome("retrack", "none", 0)
  /\ LET holders == {k \in SessionKeys : containers[k].containerId = containerId}
     IN IF holders = {} THEN UNCHANGED containers
        ELSE \E oldKey \in holders :
               containers' = [k \in SessionKeys |->
                                IF k = newSessionId THEN containers[oldKey]
                                ELSE IF k = oldKey THEN NoContainer
                                ELSE containers[k]]
  /\ UNCHANGED <<docker, ctNext, stateFile>>

\* retrack called on its own
retrack(containerId, newSessionId) ==
  /\ RetrackEffect(containerId, newSessionId)
  /\ UNCHANGED <<sessionVars, pluginVars, adapterVars, pipelineVars, worktreeVars>>

\* faulty variant of Untrack: the entry is kept when `docker rm -f` failed
UntrackIfRemoved(map, sessionId, rmFails) ==
  IF rmFails THEN map ELSE [map EXCEPT ![sessionId] = NoContainer]

\* this.containers.delete(sessionId), after the try/catch around the rm
Untrack(map, sessionId, rmFails) == [map EXCEPT ![sessionId] = NoContainer]

\* the body of removeContainer(sessionId); rmFails: `docker rm -f` fails
RemoveEffect(sessionId, rmFails) ==
  /\ ctOutcome' = Outcome("removeContainer", "none", 0)
  /\ IF containers[sessionId] = NoContainer
       THEN UNCHANGED <<containers, docker>>
       ELSE /\ docker' = IF rmFails THEN docker
                         ELSE [docker EXCEPT ![containers[sessionId].containerId] = "missing"]
            /\ containers' = Untrack(containers, sessionId, rmFails)
  /\ UNCHANGED <<ctNext, stateFile>>

\* removeContainer(sessionId) called on its own
removeContainer(sessionId, rmFails) ==
  /\ RemoveEffect(sessionId, rmFails)
  /\ UNCHANGED <<sessionVars, pluginVars, adapterVars, pipelineVars, worktreeVars>>

\* cleanupAll(); failed: the sessions whose `docker rm -f` fails
cleanupAll(failed) ==
  /\ failed \subseteq Tracked(containers)
  /\ ctOutcome' = Outcome("cleanupAll", "none", 0)
  /\ docker' = [id \in ContainerIds |->
                  IF \E k \in Tracked(containers) \ failed : containers[k].containerId = id
                    THEN "missing" ELSE docker[id]]
  /\ containers' = [k \in SessionKeys |-> Untrack(containers, k, k \in failed)[k]]
  /\ UNCHANGED <<ctNext, stateFile>>
  /\ UNCHANGED <<sessionVars, pluginVars, adapterVars, pipelineVars, worktreeVars>>

\* persistState(filePath); writeFails: writeFileSync throws
persistState(writeFails) ==
  /\ ctOutcome' = Outcome("persistState", "none", 0)
  /\ stateFile' =
       IF writeFails THEN stateFile
       ELSE [status |-> "ok",
             entries |-> {[sessionId |-> k, info |-> containers[k]] :
                            k \in {t \in Tracked(containers) : containers[t].state # "removed"}}]
  /\ UNCHANGED <<containers, docker, ctNext>>
  /\ UNCHANGED <<sessionVars, pluginVars, adapterVars, pipelineVars, worktreeVars>>

\* faulty variant of Restorable: the runtime is not asked
RestoreUnverified(entry) == TRUE

\* restoreContainer returns true: `docker inspect` finds the container
Restorable(entry) == docker[entry.info.containerId] # "missing"

\* the info restoreContainer stores: state from `docker inspect`
Restored(entry) ==
  [entry.info EXCEPT !.state =
     IF docker[entry.info.containerId] = "running" THEN "running" ELSE "stopped"]

\* restoreState(filePath)
restoreState ==
  /\ IF stateFile.status # "ok"
       THEN /\ ctOutcome' = Outcome("restoreState", "none", 0)
            /\ UNCHANGED containers
       ELSE LET kept == {e \in stateFile.entries : Restorable(e)}
            IN /\ containers' =
                    [k \in SessionKeys |->
                       IF \E e \in kept : e.sessionId = k
                         THEN Restored(CHOOSE e \in kept : e.sessionId = k)
                         ELSE containers[k]]
               /\ ctOutcome' = Outcome("restoreState", "none", Cardinality(kept))
  /\ UNCHANGED <<docker, ctNext, stateFile>>
  /\ UNCHANGED <<sessionVars, pluginVars, adapterVars, pipelineVars, worktreeVars>>

\* the server restarts: a new ContainerManager with an empty map
Restart ==
  /\ containers' = [k \in SessionKeys |-> NoContainer]
  /\ ctOutcome' = Outcome("restart", "none", 0)
  /\ UNCHANGED <<docker, ctNext, stateFile>>
  /\ UNCHANGED <<sessionVars, pluginVars, adapterVars, pipelineVars, worktreeVars>>

\* outside the manager a container stops ("stopped") or is removed ("missing")
DockerEvent(id, to) ==
  /\ docker[id] # "missing"
  /\ docker[id] # to
  /\ docker' = [docker EXCEPT ![id] = to]
  /\ UNCHANGED <<containers, ctNext, stateFile, ctOutcome>>
  /\ UNCHANGED <<sessionVars, pluginVars, adapterVars, pipelineVars, worktreeVars>>

\* the state file is damaged: JSON.parse will throw
FileDamaged ==
  /\ stateFile.status = "ok"
  /\ stateFile' = [status |-> "corrupt", entries |-> {}]
  /\ UNCHANGED <<containers, docker, ctNext, ctOutcome>>
  /\ UNCHANGED <<sessionVars, pluginVars, adapterVars, pipelineVars, worktreeVars>>

ContainerSpecInit ==
  /\ PluginInit
  /\ SessionInit
  /\ storageAvailable = TRUE
  /\ PipelineInit
  /\ ContainerInit
  /\ WorktreeInit
  /\ ProxyInit
  /\ ToolInit
  /\ ReconnectInit

ContainerNext ==
  \/ \E sessionId \in SessionKeys, ports \in PortConfigs, fail \in CreateFailures :
       \E unresolved \in SUBSET ports : createContainer(sessionId, ports, fail, unresolved)
  \/ \E id \in ContainerIds, newSessionId \in SessionKeys : retrack(id, newSessionId)
  \/ \E sessionId \in SessionKeys, rmFails \in BOOLEAN : removeContainer(sessionId, rmFails)
  \/ \E failed \in SUBSET SessionKeys : cleanupAll(failed)

ContainerSpec == ContainerSpecInit /\ [][ContainerNext]_vars

\* persistence across restarts: containers are created with one port
PersistNext ==
  \/ \E sessionId \in SessionKeys, unresolved \in SUBSET {[n |-> 1, integer |-> TRUE]} :
       createContainer(sessionId, {[n |-> 1, integer |-> TRUE]}, "none", unresolved)
  \/ \E sessionId \in SessionKeys, rmFails \in BOOLEAN : removeContainer(sessionId, rmFails)
  \/ \E writeFails \in BOOLEAN : persistState(writeFails)
  \/ restoreState
  \/ Restart
  \/ \E id \in ContainerIds, to \in {"stopped", "missing"} : DockerEvent(id, to)
  \/ FileDamaged

PersistSpec == ContainerSpecInit /\ [][PersistNext]_vars

(***************************************************************************)
(* Session-creation pipeline (web/server/session-creation-pipeline.ts)     *)
(***************************************************************************)
MaxPullLines == 1    \* image-pull progress lines reported during one wait

\* the request: body.backend, body.branch (absent, matching the branch
\* pattern, or not), body.useWorktree, body.cwd present, the effective image
\* (none, ready, or still to pull), a non-blank init script of the
\* environment, and whether the backend's auth is available to a container
Bodies ==
  [backend : {"claude", "invalid"}, branch : {"none", "valid", "invalid"},
   useWorktree : BOOLEAN, cwd : BOOLEAN, image : {"none", "ready", "pull"},
   initScript : BOOLEAN, auth : BOOLEAN]

\* r.progress(step, label, status)
Progress(step, status) ==
  [kind |-> "progress", step |-> step, status |-> status, code |-> 0]

\* r.error(message, status, step); step "none" when the call names no step
ErrorReport(code, step) ==
  [kind |-> "error", step |-> step, status |-> "error", code |-> code]

\* a call that has a side effect outside the pipeline
Call(name) == [kind |-> "call", step |-> name, status |-> "call", code |-> 0]

\* faulty variant of StepEvents: done is reported before in_progress
DoneFirst(step) == <<Progress(step, "done"), Progress(step, "in_progress")>>

\* the two progress reports around a step that cannot fail
StepEvents(step) == <<Progress(step, "in_progress"), Progress(step, "done")>>

\* faulty variant of Abort: the error is reported and the run goes on to
\* launch the CLI
ErrorWithoutAbort(log) ==
  /\ plLog' = log
  /\ plPc' = "launch"
  /\ plResult' = plResult

\* throw new PipelineAbort(): runSessionCreationPipeline returns null
Abort(log) ==
  /\ plLog' = log
  /\ plPc' = "done"
  /\ plResult' = "null"

\* an exception other than PipelineAbort leaves _run and is rethrown
Rethrow(log) ==
  /\ plLog' = log
  /\ plPc' = "done"
  /\ plResult' = "throws"

Goto(pc, log) ==
  /\ plLog' = log
  /\ plPc' = pc
  /\ plResult' = plResult

\* runSessionCreationPipeline(body, reporter, deps)
StartPipeline(body) ==
  /\ plPc = "idle"
  /\ plBody' = body
  /\ plPc' = "validate"
  /\ plLog' = <<>>
  /\ plResult' = "running"
  /\ UNCHANGED <<plRun, sessionVars, pluginVars, adapterVars, containerVars, worktreeVars>>

\* 1. validate basics
ValidateBasics ==
  /\ plPc = "validate"
  /\ IF plBody.backend = "invalid"
       THEN Abort(Append(plLog, ErrorReport(400, "none")))
       ELSE Goto("resolve_env", plLog)
  /\ UNCHANGED <<plBody, plRun, sessionVars, pluginVars, adapterVars, containerVars, worktreeVars>>

\* 2. resolve environment
ResolveEnvironment ==
  /\ plPc = "resolve_env"
  /\ Goto("git", plLog \o StepEvents("resolving_env"))
  /\ UNCHANGED <<plBody, plRun, sessionVars, pluginVars, adapterVars, containerVars, worktreeVars>>

\* 3. the branch name fails the pattern
GitInvalidBranch ==
  /\ plPc = "git"
  /\ plBody.branch = "invalid"
  /\ Abort(Append(plLog, ErrorReport(400, "checkout_branch")))
  /\ UNCHANGED <<plBody, plRun, sessionVars, pluginVars, adapterVars, containerVars, worktreeVars>>

\* 3. if (body.useWorktree && body.branch && cwd); repo: getRepoInfo(cwd)
\* found a repository, threw: ensureWorktree threw
GitWorktree(repo, threw) ==
  /\ plPc = "git"
  /\ plBody.branch = "valid" /\ plBody.useWorktree /\ plBody.cwd
  /\ threw => repo
  /\ LET started == Append(plLog, Progress("creating_worktree", "in_progress"))
     IN IF threw THEN Rethrow(started)
        ELSE Goto("auth",
                  (IF repo THEN Append(started, Call("ensureWorktree")) ELSE started)
                    \o <<Progress("creating_worktree", "done")>>)
  /\ UNCHANGED <<plBody, plRun, sessionVars, pluginVars, adapterVars, containerVars, worktreeVars>>

\* 3. else if (body.branch && cwd); same: repoInfo.currentBranch is the
\* branch asked for, threw: checkoutOrCreateBranch threw
GitFetchCheckoutPull(repo, same, threw) ==
  /\ plPc = "git"
  /\ plBody.branch = "valid" /\ ~plBody.useWorktree /\ plBody.cwd
  /\ ~repo => same
  /\ threw => (repo /\ ~same)
  /\ LET fetched == plLog \o StepEvents("fetching_git")
         checking == Append(fetched, Progress("checkout_branch", "in_progress"))
         checked == IF same THEN fetched
                    ELSE Append(checking, Progress("checkout_branch", "done"))
     IN IF ~repo THEN Goto("auth", plLog)
        ELSE IF threw THEN Rethrow(checking)
        ELSE Goto("auth", checked \o StepEvents("pulling_git"))
  /\ UNCHANGED <<plBody, plRun, sessionVars, pluginVars, adapterVars, containerVars, worktreeVars>>

\* 3. neither branch of the git section applies
GitSkip ==
  /\ plPc = "git"
  /\ plBody.branch = "none" \/ (plBody.branch = "valid" /\ ~plBody.cwd)
  /\ Goto("auth", plLog)
  /\ UNCHANGED <<plBody, plRun, sessionVars, pluginVars, adapterVars, containerVars, worktreeVars>>

\* 4. auth check for containerized sessions
AuthCheck ==
  /\ plPc = "auth"
  /\ IF plBody.image # "none" /\ ~plBody.auth
       THEN Abort(Append(plLog, ErrorReport(400, "none")))
       ELSE Goto(IF plBody.image = "none" THEN "launch" ELSE "image", plLog)
  /\ UNCHANGED <<plBody, plRun, sessionVars, pluginVars, adapterVars, containerVars, worktreeVars>>

RECURSIVE PullLines(_)
PullLines(n) ==
  IF n = 0 THEN <<>>
  ELSE Append(PullLines(n - 1), Progress("pulling_image", "in_progress"))

\* faulty variant of ImageWait: the subscription is never released
WaitKeepsSubscription(log, lines) ==
  (log \o <<Progress("pulling_image", "in_progress"), Call("onImagePullProgress")>>)
    \o PullLines(lines)

\* the wait for the image: in_progress, the progress subscription with the
\* lines it forwards while waitForReady is pending, then unsub
ImageWait(log, lines) ==
  ((log \o <<Progress("pulling_image", "in_progress"), Call("onImagePullProgress")>>)
     \o PullLines(lines)) \o <<Call("unsub")>>

\* 4a. ensure the image is available; lines: progress lines streamed during
\* the wait, ready: what waitForReady resolved to
EnsureImage(lines, ready) ==
  /\ plPc = "image"
  /\ lines \in 0 .. MaxPullLines
  /\ plBody.image = "ready" => (lines = 0 /\ ready)
  /\ LET waited == ImageWait(plLog, lines)
     IN IF plBody.image = "ready" THEN Goto("container", plLog)
        ELSE IF ready
               THEN Goto("container", Append(waited, Progress("pulling_image", "done")))
               ELSE Abort(Append(waited, ErrorReport(503, "pulling_image")))
  /\ UNCHANGED <<plBody, plRun, sessionVars, pluginVars, adapterVars, containerVars, worktreeVars>>

\* 4b. create container; threw: containerManager.createContainer threw
CreateContainer(threw, tempId) ==
  /\ plPc = "container"
  /\ LET started == Append(plLog, Progress("creating_container", "in_progress"))
     IN IF threw
          THEN /\ CreateEffect(tempId, {}, "create", {})
               /\ Abort(Append(started, ErrorReport(503, "creating_container")))
               /\ UNCHANGED plRun
          ELSE /\ CreateEffect(tempId, {}, "none", {})
               /\ Goto("copy", started \o <<Call("createContainer"),
                                             Progress("creating_container", "done")>>)
               /\ plRun' = [plRun EXCEPT !.tempId = tempId, !.containerId = ctNext]
  /\ UNCHANGED <<plBody, sessionVars, pluginVars, adapterVars, worktreeVars>>

\* 4c. copy workspace; threw: copyWorkspaceToContainer or reseedGitAuth threw
CopyWorkspace(threw) ==
  /\ plPc = "copy"
  /\ LET started == Append(plLog, Progress("copying_workspace", "in_progress"))
     IN IF threw
          THEN /\ \E rmFails \in BOOLEAN : RemoveEffect(plRun.tempId, rmFails)
               /\ Abort(started \o <<Call("removeContainer"),
                                     ErrorReport(503, "copying_workspace")>>)
          ELSE /\ Goto("init", Append(started, Progress("copying_workspace", "done")))
               /\ UNCHANGED containerVars
  /\ UNCHANGED <<plBody, plRun, sessionVars, pluginVars, adapterVars, worktreeVars>>

\* 4d. init script; exit: exit code 0 ("ok"), another exit code
\* ("nonzero"), or execInContainerAsync threw ("throws")
InitScript(exit) ==
  /\ plPc = "init"
  /\ exit \in {"ok", "nonzero", "throws"}
  /\ ~plBody.initScript => exit = "ok"
  /\ LET started == Append(plLog, Progress("running_init_script", "in_progress"))
     IN IF ~plBody.initScript
          THEN Goto("launch", plLog) /\ UNCHANGED containerVars
        ELSE IF exit = "ok"
          THEN /\ Goto("launch",
                       Append(started, Progress("running_init_script", "done")))
               /\ UNCHANGED containerVars
          ELSE /\ \E rmFails \in BOOLEAN : RemoveEffect(plRun.tempId, rmFails)
               /\ Abort(started \o <<Call("removeContainer"),
                                     ErrorReport(503, "running_init_script")>>)
  /\ UNCHANGED <<plBody, plRun, sessionVars, pluginVars, adapterVars, worktreeVars>>

HasCall(log, name) == \E i \in DOMAIN log : log[i] = Call(name)

\* 5. launch CLI and 6. post-launch bookkeeping; threw: launcher.launch
\* threw; sessionId: the id of the session the launcher returns, an id that
\* is new to the ContainerManager
LaunchCli(threw, sessionId) ==
  /\ plPc = "launch"
  /\ LET started == Append(plLog, Progress("launching_cli", "in_progress"))
         launched == Append(started, Call("launch"))
         retracked == IF HasCall(plLog, "createContainer")
                        THEN Append(launched, Call("retrack")) ELSE launched
         mapped == IF HasCall(plLog, "ensureWorktree")
                     THEN Append(retracked, Call("addMapping")) ELSE retracked
     IN IF threw
          THEN Rethrow(started) /\ UNCHANGED <<plRun, containerVars>>
          ELSE /\ sessionId # plRun.tempId
               /\ containers[sessionId] = NoContainer
               /\ plLog' = Append(mapped, Progress("launching_cli", "done"))
               /\ plPc' = "done"
               /\ plResult' = "result"
               /\ plRun' = [plRun EXCEPT !.sessionId = sessionId]
               /\ IF plRun.containerId # 0
                    THEN RetrackEffect(plRun.containerId, sessionId)
                    ELSE UNCHANGED containerVars
  /\ UNCHANGED <<plBody, sessionVars, pluginVars, adapterVars, worktreeVars>>

\* a route handler's containerManager.removeContainer(id) for the session
\* the run returned (session delete or archive)
RemoveLaunched(rmFails) ==
  /\ plResult = "result"
  /\ removeContainer(plRun.sessionId, rmFails)

PipelineSpecInit ==
  /\ PluginInit
  /\ SessionInit
  /\ storageAvailable = TRUE
  /\ PipelineInit
  /\ ContainerInit
  /\ WorktreeInit
  /\ ProxyInit
  /\ ToolInit
  /\ ReconnectInit

PipelineNext ==
  \/ \E body \in Bodies : StartPipeline(body)
  \/ ValidateBasics
  \/ ResolveEnvironment
  \/ GitInvalidBranch
  \/ \E repo, threw \in BOOLEAN : GitWorktree(repo, threw)
  \/ \E repo, same, threw \in BOOLEAN : GitFetchCheckoutPull(repo, same, threw)
  \/ GitSkip
  \/ AuthCheck
  \/ \E lines \in 0 .. MaxPullLines, ready \in BOOLEAN : EnsureImage(lines, ready)
  \/ \E threw \in BOOLEAN, tempId \in SessionKeys : CreateContainer(threw, tempId)
  \/ \E threw \in BOOLEAN : CopyWorkspace(threw)
  \/ \E exit \in {"ok", "nonzero", "throws"} : InitScript(exit)
  \/ \E threw \in BOOLEAN, sessionId \in SessionKeys : LaunchCli(threw, sessionId)
  \/ \E rmFails \in BOOLEAN : RemoveLaunched(rmFails)

PipelineSpec == PipelineSpecInit /\ [][PipelineNext]_vars

(***************************************************************************)
(* Worktree cleanup of the session routes (routes.ts)                      *)
(***************************************************************************)
\* worktreeTracker.isWorktreeInUse(path, excludeSessionId): the mapping of
\* another session references the path
isWorktreeInUse(mappings, path, excludeSessionId) ==
  \E k \in SessionKeys \ {excludeSessionId} : mappings[k].path = path

\* worktreeTracker.removeBySession(sessionId)
removeBySession(mappings, sessionId) == [mappings EXCEPT ![sessionId] = NoMapping]

\* faulty variant of Refused: a dirty worktree is never refused
NeverRefused(dirty, force) == FALSE

\* if (dirty && !force): the cleanup refuses to touch the worktree
Refused(dirty, force) == dirty /\ ~force

\* faulty variant of branchToDelete: the branch the worktree is pinned to is
\* always deleted
AlwaysDeleteBranch(mapping) ==
  IF mapping.actualBranch # "none" THEN mapping.actualBranch ELSE mapping.branch

\* const branchToDelete = mapping.actualBranch && mapping.actualBranch !==
\* mapping.branch ? mapping.actualBranch : undefined ("none": undefined, or
\* an actualBranch that is not set)
branchToDelete(mapping) ==
  IF mapping.actualBranch # "none" /\ mapping.actualBranch # mapping.branch
    THEN mapping.actualBranch
    ELSE "none"

\* what the last cleanup did: route is the route that called it, dirty what
\* gitUtils.isWorktreeDirty answered (FALSE when it was not asked), mapping
\* what getBySession returned, branchDeleted the branch removeWorktree
\* deleted after it removed the worktree
Cleanup(route, session, returned, removed, force, dirty, mapping, branchDeleted) ==
  [route |-> route, session |-> session, returned |-> returned, removed |-> removed,
   force |-> force, dirty |-> dirty, mapping |-> mapping,
   branchDeleted |-> branchDeleted]

\* cleanupWorktree(sessionId, force); gitRemoves: gitUtils.removeWorktree
\* returns {removed: true}
cleanupWorktree(route, sessionId, force, gitRemoves) ==
  LET mapping == wtMappings[sessionId]
      dirty == worktrees[mapping.path] = "dirty"
  IN IF mapping = NoMapping
       THEN /\ wtOutcome' = Cleanup(route, sessionId, "undefined", "none", force, FALSE,
                                    mapping, "none")
            /\ UNCHANGED <<wtMappings, worktrees>>
     ELSE IF isWorktreeInUse(wtMappings, mapping.path, sessionId)
       THEN /\ wtMappings' = removeBySession(wtMappings, sessionId)
            /\ wtOutcome' = Cleanup(route, sessionId, "in use", "none", force, FALSE,
                                    mapping, "none")
            /\ UNCHANGED worktrees
     ELSE IF Refused(dirty, force)
       THEN /\ wtOutcome' = Cleanup(route, sessionId, "dirty", "none", force, dirty,
                                    mapping, "none")
            /\ UNCHANGED <<wtMappings, worktrees>>
     ELSE IF gitRemoves
       THEN /\ worktrees' = [worktrees EXCEPT ![mapping.path] = "absent"]
            /\ wtMappings' = removeBySession(wtMappings, sessionId)
            /\ wtOutcome' = Cleanup(route, sessionId, "cleaned", mapping.path, force,
                                    dirty, mapping, branchToDelete(mapping))
       ELSE /\ wtOutcome' = Cleanup(route, sessionId, "not cleaned", "none", force, dirty,
                                    mapping, "none")
            /\ UNCHANGED <<wtMappings, worktrees>>

\* faulty variant of DeleteSession: the delete route does not force the
\* cleanup
DeleteWithoutForce(id, rmFails, gitRemoves) ==
  /\ RemoveEffect(id, rmFails)
  /\ cleanupWorktree("delete", id, FALSE, gitRemoves)
  /\ UNCHANGED <<sessionVars, pluginVars, adapterVars, pipelineVars>>

\* DELETE /sessions/:id
DeleteSession(id, rmFails, gitRemoves) ==
  /\ RemoveEffect(id, rmFails)
  /\ cleanupWorktree("delete", id, TRUE, gitRemoves)
  /\ UNCHANGED <<sessionVars, pluginVars, adapterVars, pipelineVars>>

\* POST /sessions/:id/archive with body.force = force
ArchiveSession(id, force, rmFails, gitRemoves) ==
  /\ RemoveEffect(id, rmFails)
  /\ cleanupWorktree("archive", id, force, gitRemoves)
  /\ UNCHANGED <<sessionVars, pluginVars, adapterVars, pipelineVars>>

\* worktreeTracker.addMapping for a session whose worktree is at path:
\* branch is the branch the user requested, actualBranch the one
\* ensureWorktree pinned the worktree to
AddMapping(sessionId, path, branch, actualBranch) ==
  /\ wtMappings[sessionId] = NoMapping
  /\ wtMappings' = [wtMappings EXCEPT ![sessionId] =
                     [path |-> path, branch |-> branch, actualBranch |-> actualBranch]]
  /\ worktrees' = [worktrees EXCEPT ![path] = IF @ = "absent" THEN "clean" ELSE @]
  /\ UNCHANGED wtOutcome
  /\ UNCHANGED <<sessionVars, pluginVars, adapterVars, pipelineVars, containerVars>>

\* files in a worktree are edited or committed
WorktreeEdited(path, to) ==
  /\ worktrees[path] # "absent"
  /\ worktrees[path] # to
  /\ worktrees' = [worktrees EXCEPT ![path] = to]
  /\ UNCHANGED <<wtMappings, wtOutcome>>
  /\ UNCHANGED <<sessionVars, pluginVars, adapterVars, pipelineVars, containerVars>>

WorktreeNext ==
  \/ \E sessionId \in SessionKeys, path \in WorktreePaths, branch \in Branches,
          actualBranch \in ActualBranches :
       AddMapping(sessionId, path, branch, actualBranch)
  \/ \E path \in WorktreePaths, to \in {"clean", "dirty"} : WorktreeEdited(path, to)
  \/ \E id \in SessionKeys, rmFails, gitRemoves \in BOOLEAN :
       DeleteSession(id, rmFails, gitRemoves)
  \/ \E id \in SessionKeys, force, rmFails, gitRemoves \in BOOLEAN :
       ArchiveSession(id, force, rmFails, gitRemoves)

WorktreeSpec == ContainerSpecInit /\ [][WorktreeNext]_vars

(***************************************************************************)
(* WebSocket proxy of the Codex backend (codex-ws-proxy.cjs)               *)
(***************************************************************************)
\* timeoutMs = Number(process.argv[3]), the connect deadline, in units of 100 ms
proxyTimeoutMs == 2

\* Math.min(100 * connectAttempt, 500), in units of 100 ms
Backoff(attempt) == IF attempt < 5 THEN attempt ELSE 5

Send(sock, line) == [sock |-> sock, line |-> line]

\* flushQueue(), with the readyState the sockets have when it runs
flushQueue(sock) ==
  IF pxWs # 0 /\ sock[pxWs] = "open" /\ pxQueue # <<>>
    THEN /\ pxSent' = pxSent \o [i \in 1 .. Len(pxQueue) |-> Send(pxWs, pxQueue[i])]
         /\ pxQueue' = <<>>
    ELSE UNCHANGED <<pxSent, pxQueue>>

\* failAndExit(message): process.exit(1)
failAndExit == pxExit' = "exit 1"

\* the body of the close and error handlers of a socket: retry while no
\* socket has opened, exit afterwards
RetryOrFail ==
  IF ~pxOpened
    THEN /\ pxTimers' = Append(pxTimers, pxNow + Backoff(pxAttempt))
         /\ UNCHANGED pxExit
    ELSE /\ failAndExit
         /\ UNCHANGED pxTimers

\* the timers that have expired
Expired == {i \in DOMAIN pxTimers : pxTimers[i] <= pxNow}

\* the ids of the WebSockets not created yet
Unused == {id \in ProxySockets : pxSock[id] = "none"}

\* the timers phase of the event loop: every setTimeout(connect, ...) that
\* has expired runs connect(), one after the other. The first connect()
\* exits when the deadline has passed and no socket has opened; otherwise
\* each of them creates a WebSocket and assigns it to ws
TimerConnect ==
  /\ pxExit = "running"
  /\ Expired # {}
  /\ pxTimers' = SelectSeq(pxTimers, LAMBDA due : due > pxNow)
  /\ IF ~pxOpened /\ pxNow > proxyTimeoutMs
       THEN /\ failAndExit
            /\ pxAttempt' = pxAttempt + 1
            /\ UNCHANGED <<pxSock, pxWs>>
       ELSE /\ Cardinality(Expired) <= Cardinality(Unused)
            /\ LET first == CHOOSE id \in Unused : \A other \in Unused : id <= other
                   last == first + Cardinality(Expired) - 1
               IN /\ pxSock' = [id \in ProxySockets |->
                                  IF id \in first .. last THEN "connecting" ELSE pxSock[id]]
                  /\ pxWs' = last
            /\ pxAttempt' = pxAttempt + Cardinality(Expired)
            /\ UNCHANGED pxExit
  /\ UNCHANGED <<pxOpened, pxQueue, pxNow, pxRead, pxSent>>
  /\ UNCHANGED <<sessionVars, pluginVars, pipelineVars, containerVars, worktreeVars,
                 toolVars, reconnectVars, bridgeRestarts>>

\* ws.once("open") of socket id
ProxyOpen(id) ==
  /\ pxExit = "running"
  /\ pxSock[id] = "connecting"
  /\ pxSock' = [pxSock EXCEPT ![id] = "open"]
  /\ pxOpened' = TRUE
  /\ flushQueue(pxSock')
  /\ UNCHANGED <<pxWs, pxExit, pxAttempt, pxTimers, pxNow, pxRead>>
  /\ UNCHANGED <<sessionVars, pluginVars, pipelineVars, containerVars, worktreeVars,
                 toolVars, reconnectVars, bridgeRestarts>>

\* ws.once("error") of socket id: the socket emits error, before any close
ProxyError(id) ==
  /\ pxExit = "running"
  /\ pxSock[id] \in {"connecting", "open"}
  /\ pxSock' = [pxSock EXCEPT ![id] = "errored"]
  /\ RetryOrFail
  /\ UNCHANGED <<pxWs, pxOpened, pxQueue, pxAttempt, pxNow, pxRead, pxSent>>
  /\ UNCHANGED <<sessionVars, pluginVars, pipelineVars, containerVars, worktreeVars,
                 toolVars, reconnectVars, bridgeRestarts>>

\* ws.once("close") of socket id: the socket emits close, on its own or
\* after its error
ProxyClose(id) ==
  /\ pxExit = "running"
  /\ pxSock[id] \in {"connecting", "open", "errored"}
  /\ pxSock' = [pxSock EXCEPT ![id] = "closed"]
  /\ RetryOrFail
  /\ UNCHANGED <<pxWs, pxOpened, pxQueue, pxAttempt, pxNow, pxRead, pxSent>>
  /\ UNCHANGED <<sessionVars, pluginVars, pipelineVars, containerVars, worktreeVars,
                 toolVars, reconnectVars, bridgeRestarts>>

\* rl.on("line"): an empty line (0) or the next non-empty line, named by
\* its position in the input
StdinLine(empty) ==
  /\ pxExit = "running"
  /\ Len(pxRead) < MaxLines
  /\ LET line == IF empty THEN 0 ELSE Len(pxRead) + 1
     IN /\ pxRead' = Append(pxRead, line)
        /\ IF empty THEN UNCHANGED <<pxQueue, pxSent>>
           ELSE IF pxWs = 0 \/ pxSock[pxWs] # "open"
             THEN pxQueue' = Append(pxQueue, line) /\ UNCHANGED pxSent
             ELSE pxSent' = Append(pxSent, Send(pxWs, line)) /\ UNCHANGED pxQueue
  /\ UNCHANGED <<pxSock, pxWs, pxOpened, pxExit, pxAttempt, pxTimers, pxNow>>
  /\ UNCHANGED <<sessionVars, pluginVars, pipelineVars, containerVars, worktreeVars,
                 toolVars, reconnectVars, bridgeRestarts>>

\* rl.on("close"), SIGINT or SIGTERM: process.exit(0)
StdinClosed ==
  /\ pxExit = "running"
  /\ pxExit' = "exit 0"
  /\ UNCHANGED <<pxSock, pxWs, pxOpened, pxQueue, pxAttempt, pxTimers, pxNow,
                 pxRead, pxSent>>
  /\ UNCHANGED <<sessionVars, pluginVars, pipelineVars, containerVars, worktreeVars,
                 toolVars, reconnectVars, bridgeRestarts>>

\* 100 ms pass
ProxyTick ==
  /\ pxExit = "running"
  /\ pxNow < MaxTicks
  /\ pxNow' = pxNow + 1
  /\ UNCHANGED <<pxSock, pxWs, pxOpened, pxExit, pxQueue, pxAttempt, pxTimers,
                 pxRead, pxSent>>
  /\ UNCHANGED <<sessionVars, pluginVars, pipelineVars, containerVars, worktreeVars,
                 toolVars, reconnectVars, bridgeRestarts>>

ProxyNext ==
  \/ TimerConnect
  \/ \E id \in ProxySockets : ProxyOpen(id)
  \/ \E id \in ProxySockets : ProxyError(id)
  \/ \E id \in ProxySockets : ProxyClose(id)
  \/ \E empty \in BOOLEAN : StdinLine(empty)
  \/ StdinClosed
  \/ ProxyTick

ProxySpec == ContainerSpecInit /\ [][ProxyNext]_vars

(***************************************************************************)
(* Browser client: tool progress (ws-message-handlers.ts, store.ts)        *)
(***************************************************************************)
\* store.setToolProgress(sessionId, toolUseId, data)
setToolProgress(progress, sessionId, toolUseId, data) ==
  [progress EXCEPT ![sessionId][toolUseId] = data]

\* faulty variant of clearToolProgress: the whole session is cleared even
\* when a tool_use_id is given
ClearBlanket(progress, sessionId, toolUseId) ==
  [progress EXCEPT ![sessionId] = [id \in ToolUseIds |-> NoProgress]]

\* store.clearToolProgress(sessionId, toolUseId); toolUseId "undefined":
\* the argument is left out
clearToolProgress(progress, sessionId, toolUseId) ==
  IF toolUseId # "undefined"
    THEN [progress EXCEPT ![sessionId][toolUseId] = NoProgress]
    ELSE [progress EXCEPT ![sessionId] = [id \in ToolUseIds |-> NoProgress]]

\* the loop of handleAssistant over the tool_result blocks of the content
RECURSIVE ClearResults(_, _, _)
ClearResults(progress, sessionId, results) ==
  IF results = {} THEN progress
  ELSE LET id == CHOOSE r \in results : TRUE
       IN ClearResults(clearToolProgress(progress, sessionId, id), sessionId,
                       results \ {id})

\* what one handler of handleParsedMessage does to store.toolProgress
HandleOne(progress, sessionId, msg) ==
  CASE msg.type = "tool_progress" ->
         setToolProgress(progress, sessionId, msg.tool, msg.elapsed)
    [] msg.type = "assistant" -> ClearResults(progress, sessionId, msg.results)
    [] msg.type = "result" -> clearToolProgress(progress, sessionId, "undefined")
    [] msg.type = "message_history" ->
         IF msg.lastIsResult
           THEN clearToolProgress(progress, sessionId, "undefined")
           ELSE progress
    [] OTHER -> progress

\* handleEventReplay: the events are handled in order
RECURSIVE HandleEvents(_, _, _)
HandleEvents(progress, sessionId, events) ==
  IF events = <<>> THEN progress
  ELSE HandleEvents(HandleOne(progress, sessionId, Head(events)), sessionId,
                    Tail(events))

\* handleParsedMessage(sessionId, data), as far as store.toolProgress goes
HandleParsed(progress, sessionId, msg) ==
  IF msg.type = "event_replay"
    THEN HandleEvents(progress, sessionId, msg.events)
    ELSE HandleOne(progress, sessionId, msg)

\* the messages a socket delivers, other than event_replay
PlainMessages ==
  {Message("tool_progress", id, elapsed, {}, FALSE, <<>>) :
     id \in ToolUseIds, elapsed \in 1 .. MaxElapsed}
    \cup {Message("assistant", "none", 0, results, FALSE, <<>>) :
            results \in SUBSET ToolUseIds}
    \cup {Message(type, "none", 0, {}, FALSE, <<>>) :
            type \in {"result", "stream_event", "status_change", "cli_disconnected"}}
    \cup {Message("message_history", "none", 0, {}, lastIsResult, <<>>) :
            lastIsResult \in BOOLEAN}

\* the events an event_replay of the model carries: one or two of these
ReplayEvents ==
  {Message("tool_progress", "toolu_1", 1, {}, FALSE, <<>>),
   Message("assistant", "none", 0, {"toolu_1"}, FALSE, <<>>),
   Message("result", "none", 0, {}, FALSE, <<>>),
   Message("stream_event", "none", 0, {}, FALSE, <<>>)}

IncomingMessages ==
  PlainMessages
    \cup {Message("event_replay", "none", 0, {}, FALSE, <<e>>) : e \in ReplayEvents}
    \cup {Message("event_replay", "none", 0, {}, FALSE, <<e, f>>) :
            e \in ReplayEvents, f \in ReplayEvents}

\* a message for sessionId arrives and handleParsedMessage handles it
HandleMessage(sessionId, msg) ==
  /\ toolProgress' = HandleParsed(toolProgress, sessionId, msg)
  /\ tpLast' = [session |-> sessionId, msg |-> msg,
                removed |-> {id \in ToolUseIds :
                               /\ toolProgress[sessionId][id] # NoProgress
                               /\ toolProgress'[sessionId][id] = NoProgress}]
  /\ UNCHANGED <<sessionVars, pluginVars, pipelineVars, containerVars, worktreeVars,
                 proxyVars, reconnectVars, bridgeRestarts>>

ToolNext ==
  \/ \E sessionId \in ToolSessions, msg \in IncomingMessages :
       HandleMessage(sessionId, msg)

ToolSpec == ContainerSpecInit /\ [][ToolNext]_vars

(***************************************************************************)
(* Properties of the plugin bus                                            *)
(***************************************************************************)
CallOf(id) == CHOOSE i \in DOMAIN calls : calls[i].id = id

Invoked(id) == \E i \in DOMAIN calls : calls[i].id = id

\* C7: within one emit, onEvent invocations start in non-increasing priority
\* order, and plugins of equal priority are invoked in registration order
\* (the position of their id in the definitions Map).
C7_PriorityOrder ==
  \A i, j \in DOMAIN calls :
    i < j => \/ calls[i].priority > calls[j].priority
             \/ /\ calls[i].priority = calls[j].priority
                /\ calls[i].pos < calls[j].pos

\* three invocations, the last two of equal priority
C7_Witness ==
  /\ Len(calls) = 3
  /\ calls[1].priority > calls[2].priority
  /\ calls[2].priority = calls[3].priority

\* C8: nothing a non-blocking plugin returns reaches the emit result: every
\* insight of the insights array and the permission decision come from a
\* plugin invoked as blocking, and what options.onInsight receives comes
\* from plugins invoked as non-blocking; a non-blocking run is never awaited.
C8_NonBlockingIsolated ==
  /\ \A k \in DOMAIN insights :
       Invoked(insights[k].plugin_id) /\ calls[CallOf(insights[k].plugin_id)].blocking
  /\ permissionDecision # NoDecision =>
       /\ Invoked(permissionDecision.pluginId)
       /\ calls[CallOf(permissionDecision.pluginId)].blocking
  /\ \A k \in DOMAIN onInsightLog :
       /\ Invoked(onInsightLog[k].plugin_id)
       /\ ~calls[CallOf(onInsightLog[k].plugin_id)].blocking
  /\ emPc = "await" => calls[Len(calls)].blocking

\* emit has resolved without a decision or an insight while one non-blocking
\* run is still pending and another has delivered its insight through onInsight
C8_Witness ==
  /\ emPc = "resolved"
  /\ asyncRuns # {}
  /\ permissionDecision = NoDecision
  /\ insights = <<>>
  /\ \E k \in DOMAIN onInsightLog : onInsightLog[k].title = "insight"

HasErrorInsight(log, id) ==
  \E k \in DOMAIN log : log[k].plugin_id = id /\ log[k].title = "Plugin error"

AbortingFailure ==
  \E i \in DOMAIN candidates :
    /\ candidates[i].id \in failedBlocking
    /\ FailPolicyOf(candidates[i]) = "abort_current_action"

\* C9: once emit has settled after a blocking plugin failed: with failPolicy
\* abort_current_action the failing plugin is the last one invoked and the
\* result has aborted = true; with failPolicy continue (and no aborting
\* failure) every remaining enabled candidate was invoked and aborted is
\* false; in both cases emit resolved and the result holds an error insight
\* of the failed plugin.
C9_FailPolicy ==
  (emPc \in {"resolved", "rejected"} /\ failedBlocking # {}) =>
    /\ emPc = "resolved"
    /\ \A id \in failedBlocking : HasErrorInsight(insights, id)
    /\ IF AbortingFailure
         THEN /\ aborted
              /\ calls[Len(calls)].id \in failedBlocking
              /\ FailPolicyOf(candidates[emIdx]) = "abort_current_action"
              /\ candidates[emIdx].id = calls[Len(calls)].id
         ELSE /\ ~aborted
              /\ \A i \in DOMAIN candidates :
                   IsEnabled(candidates[i], emState) => Invoked(candidates[i].id)

\* C10: a failing onEvent never makes emit reject, and once every run of the
\* call has settled each failed invocation has its error insight: in the
\* result for a blocking plugin, through onInsight for a non-blocking one.
C10_FailuresContained ==
  /\ emPc # "rejected"
  /\ \A id \in failedBlocking : HasErrorInsight(insights, id)

\* the calls of the emit in flight whose awaited result carried a decision
Deciders == SelectSeq(calls, LAMBDA c : c.result.decision \in {"allow", "deny"})

\* C12: when several blocking plugins of one emit return a permissionDecision,
\* the result carries the decision of the first of them in dispatch order
\* (the highest-priority plugin that decided); a later decision never
\* replaces it, and with no decider the result carries none.
C12_FirstDecisionWins ==
  /\ permissionDecision =
       IF Deciders = <<>> THEN NoDecision
       ELSE [behavior |-> Deciders[1].result.decision, pluginId |-> Deciders[1].id]
  /\ \A i \in DOMAIN Deciders :
       /\ Deciders[i].blocking
       /\ Deciders[1].priority >= Deciders[i].priority

\* emit resolved after two blocking plugins of different priority returned
\* opposite decisions
C12_Witness ==
  /\ emPc = "resolved"
  /\ Len(Deciders) >= 2
  /\ Deciders[1].id # Deciders[2].id
  /\ Deciders[1].priority > Deciders[2].priority
  /\ Deciders[1].result.decision # Deciders[2].result.decision
  /\ permissionDecision.pluginId = Deciders[1].id

DefinitionOf(id) == definitions[IndexOf(id)]

\* a step in which the promise of a timed-out run settles
LateStep == emPc' = emPc /\ lateRuns' # lateRuns /\ lateRuns' \subseteq lateRuns

\* C14: every run is bounded by a timer of plugin.timeoutMs, 3000 ms when
\* the definition has none; a blocking plugin whose onEvent never settles is
\* treated as failed when the timer fires, so the await of emit always ends
\* and emit always terminates; a result that arrives after the timer fired
\* changes nothing.
C14_BoundedByTimeout ==
  /\ [](\A run \in lateRuns :
          /\ run.after \in {DefinitionOf(run.id).timeoutMs, DEFAULT_TIMEOUT_MS}
          /\ run.after > 0
          /\ DefinitionOf(run.id).blocking => HasErrorInsight(insights, run.id))
  /\ (emPc = "await") ~> (emPc # "await")
  /\ (emPc \in {"loop", "await"}) ~> (emPc \in {"resolved", "rejected"})
  /\ [][LateStep => UNCHANGED <<insights, permissionDecision, aborted, emIdx,
                                onInsightLog, asyncRuns, calls, failedBlocking>>]_vars

\* emit resolved after the timer of a blocking run fired, the error insight
\* of that run in its result, the promise of the plugin still pending
C14_Witness ==
  /\ emPc = "resolved"
  /\ \E run \in lateRuns :
       /\ DefinitionOf(run.id).blocking
       /\ run.after = DEFAULT_TIMEOUT_MS
       /\ \E k \in DOMAIN insights :
            insights[k].plugin_id = run.id /\ insights[k].message = "timeout"

Holds(id, capability) == capability \in DefinitionOf(id).capabilities

HasBlockedInsight(id) ==
  \E k \in DOMAIN insights :
    insights[k].plugin_id = id /\ insights[k].title = "Capability blocked"

\* C11: no output of a plugin that lacks a capability reaches the channel
\* of that capability: the permissionDecision of an emit comes from a plugin
\* that holds permission:auto-decide, and for every decision returned by a
\* plugin that lacks it the result holds a "Capability blocked" insight.
C11_CapabilityGated ==
  /\ permissionDecision # NoDecision =>
       Holds(permissionDecision.pluginId, "permission:auto-decide")
  /\ emPc = "resolved" =>
       \A i \in DOMAIN Deciders :
         ~Holds(Deciders[i].id, "permission:auto-decide") =>
           HasBlockedInsight(Deciders[i].id)

\* return { insights, permissionDecision, aborted }
EmitResult ==
  [insights |-> insights, permissionDecision |-> permissionDecision,
   aborted |-> aborted]

\* content of a user message, as a sequence of words
Hello == <<"hello">>

\* res.userMessageMutation?.content, <<>> when the result has no mutation
MutatedContent(res) ==
  IF "userMessageMutation" \in DOMAIN res THEN res.userMessageMutation.content
  ELSE <<>>

\* the mutation the onEvent of a middleware plugin computes from content
ApplyMutation(content, call) ==
  CASE DefinitionOf(call.id).mutation = "prefix" -> <<call.id>> \o content
    [] DefinitionOf(call.id).mutation = "append" -> content \o <<call.id>>
    [] OTHER -> content

\* the fulfilled calls of the emit in flight that returned a mutation
Mutators ==
  SelectSeq(calls, LAMBDA c : /\ DefinitionOf(c.id).mutation # "none"
                              /\ c.result.decision # "pending"
                              /\ ~c.result.void)

RECURSIVE Compose(_, _)
Compose(content, cs) ==
  IF cs = <<>> THEN content
  ELSE Compose(ApplyMutation(content, Head(cs)), Tail(cs))

\* C13: on user.message.before_send the mutations the plugins return are
\* composed in priority order, each plugin seeing the content its
\* predecessor left: the result of the emit carries the composition of all
\* of them, applied to the original content in dispatch order.
C13_MutationsComposed ==
  (emPc = "resolved" /\ emEvent = "user.message.before_send" /\ Mutators # <<>>) =>
    MutatedContent(EmitResult) = Compose(Hello, Mutators)

\* the row list() builds for plugin
ListRow(plugin) ==
  [id |-> plugin.id, events |-> plugin.events, priority |-> plugin.priority,
   blocking |-> plugin.blocking, timeoutMs |-> timeoutMs(plugin),
   failPolicy |-> FailPolicyOf(plugin),
   enabled |-> IsEnabled(plugin, [enabled |-> stEnabled, config |-> stConfig]),
   config |-> resolveConfig(plugin, stConfig[plugin.id])]

\* row.health?.status
HealthStatus(row) ==
  IF "health" \in DOMAIN row THEN row.health.status ELSE "undefined"

\* C15: once a plugin has failed DegradedAfter times in a row, the row
\* list() returns for it reports the health status degraded.
C15_DegradedAfterFailures ==
  \A id \in WatchedIds :
    (Registered(id) /\ streak[id] >= DegradedAfter) =>
      HealthStatus(ListRow(DefinitionOf(id))) = "degraded"

\* C19: a plugin is invoked for an event exactly when it is enabled and its
\* events list contains the name of the event or the wildcard "*": once an
\* emit has run through its candidates without an abort, the plugins it
\* invoked are the enabled plugins subscribed by name or by wildcard.
C19_InvokedIffSubscribed ==
  (emPc = "resolved" /\ ~aborted) =>
    \A i \in DOMAIN definitions :
      Invoked(definitions[i].id) <=>
        /\ IsEnabled(definitions[i], emState)
        /\ (emEvent \in definitions[i].events \/ "*" \in definitions[i].events)

\* the persisted config of plugin is one its validateConfig rejects
Rejected(plugin, store) ==
  store[plugin.id] # "unset" /\ ValidateThrows(plugin, store[plugin.id])

\* a step of emit that invokes the onEvent of plugin id
NewCallOf(id) == Len(calls') = Len(calls) + 1 /\ calls'[Len(calls')].id = id

\* C16: dryRun(id, event) of a registered plugin returns the result of
\* running that plugin and leaves the runtime counters of the manager as
\* they were.
C16_DryRunIsolated ==
  [][\A id \in ConfigIds :
       (DryRun(id, "session.created") /\ Registered(id)) =>
          /\ outcome' = Returned
          /\ UNCHANGED <<streak, warnLog>>]_vars

C18_RejectedUpdateChangesNothing ==
  [][/\ \A id \in ConfigIds, raw \in RawConfigs :
          UpdateConfig(id, raw) =>
            /\ (Registered(id) /\ ValidateThrows(DefinitionOf(id), raw)) =>
                 /\ outcome' = PluginConfigValidationError
                 /\ UNCHANGED <<stConfig, stEnabled, warnedInvalidConfig>>
            /\ ~Registered(id) =>
                 /\ outcome' = ReturnedNull
                 /\ UNCHANGED <<stConfig, stEnabled, warnedInvalidConfig,
                                definitions>>
            /\ outcome' = PluginConfigValidationError =>
                 (Registered(id) /\ ValidateThrows(DefinitionOf(id), raw))
     /\ \A id \in ConfigIds, enabled \in {"true", "false"} :
          (SetEnabled(id, enabled) /\ ~Registered(id)) =>
            /\ outcome' = ReturnedNull
            /\ UNCHANGED <<stConfig, stEnabled, warnedInvalidConfig, definitions>>]_vars

\* updateConfig has just thrown for a registered plugin whose persisted
\* config is a valid one set earlier, which is still in place
C18_Witness ==
  /\ outcome = PluginConfigValidationError
  /\ Registered("broken-config-plugin")
  /\ stConfig["broken-config-plugin"] = "good"

(***************************************************************************)
(* Properties of the session-creation pipeline                             *)
(***************************************************************************)
\* the progress events of the run, in the order the reporter received them
ProgressLog == SelectSeq(plLog, LAMBDA e : e.kind = "progress")

StepOrder ==
  <<"resolving_env", "creating_worktree", "fetching_git", "checkout_branch",
    "pulling_git", "pulling_image", "creating_container", "copying_workspace",
    "running_init_script", "launching_cli">>

StepRank(step) == CHOOSE i \in DOMAIN StepOrder : StepOrder[i] = step

StepsSeen == {ProgressLog[i].step : i \in DOMAIN ProgressLog}

StepsDone ==
  {ProgressLog[i].step : i \in {j \in DOMAIN ProgressLog : ProgressLog[j].status = "done"}}

IsPrefix(s, t) == Len(s) <= Len(t) /\ \A i \in DOMAIN s : s[i] = t[i]

\* C20: in every run of the pipeline the progress events start with
\* resolving_env and follow the fixed step order, creating_worktree never
\* appears with fetching_git, checkout_branch or pulling_git, a step is left
\* only after its done event and entered with its in_progress event, nothing
\* follows a step's done event but the next step's in_progress, and with no
\* image and no branch the only steps are resolving_env then launching_cli
C20_ProgressInFixedOrder ==
  LET p == ProgressLog
      plain == StepEvents("resolving_env") \o StepEvents("launching_cli")
  IN /\ p # <<>> => p[1] = Progress("resolving_env", "in_progress")
     /\ \A i \in 1 .. Len(p) - 1 :
          /\ StepRank(p[i].step) <= StepRank(p[i + 1].step)
          /\ p[i].step # p[i + 1].step =>
               p[i].status = "done" /\ p[i + 1].status = "in_progress"
          /\ p[i].step = p[i + 1].step => p[i].status = "in_progress"
     /\ "creating_worktree" \in StepsSeen =>
          StepsSeen \cap {"fetching_git", "checkout_branch", "pulling_git"} = {}
     /\ (plPc # "idle" /\ plBody.image = "none" /\ plBody.branch = "none") =>
          /\ IsPrefix(p, plain)
          /\ plResult = "result" => p = plain

\* a run that pulled the image with a progress line, went through every
\* step of the branch without a worktree and launched the CLI
C20_Witness ==
  /\ plResult = "result"
  /\ StepsDone = {StepOrder[i] : i \in DOMAIN StepOrder} \ {"creating_worktree"}
  /\ Len(ProgressLog) > 2 * Cardinality(StepsDone)

ErrorsAt == {i \in DOMAIN plLog : plLog[i].kind = "error"}

\* C21: reporter.error is called at most once in a run; once it has been
\* called no progress event, container creation or launcher.launch call
\* follows it, the run has ended, runSessionCreationPipeline returns null
\* and no session was launched
C21_ErrorEndsTheRun ==
  /\ Cardinality(ErrorsAt) <= 1
  /\ \A i \in ErrorsAt :
       /\ \A j \in DOMAIN plLog :
            j > i => /\ plLog[j].kind # "progress"
                     /\ plLog[j] \notin {Call("createContainer"), Call("launch")}
       /\ plPc = "done"
       /\ plResult = "null"
       /\ ~HasCall(plLog, "launch")

\* a run that created its container and then reported an error
C21_Witness ==
  /\ ErrorsAt # {}
  /\ HasCall(plLog, "createContainer")
  /\ plResult = "null"

\* the container of the run is in the tracking map: createContainer set it
\* and removeContainer(tempId) has not deleted it
ContainerTracked ==
  HasCall(plLog, "createContainer") /\ ~HasCall(plLog, "removeContainer")

\* C22: a run that created a container and ended without a launched
\* session (copy failure, init script failure, CLI launch failure) has
\* removed the container from the runtime and the tracking map, and a
\* worktree the run created was never removed by it
C22_ContainerRolledBack ==
  (plPc = "done" /\ plResult # "result") =>
    /\ HasCall(plLog, "createContainer") =>
         (HasCall(plLog, "removeContainer") /\ ~ContainerTracked)
    /\ HasCall(plLog, "ensureWorktree") => ~HasCall(plLog, "removeWorktree")

CountCalls(log, name) == Cardinality({i \in DOMAIN log : log[i] = Call(name)})

\* C23: when the image has to be pulled and waitForReady reports that it did
\* not become ready, the run has emitted pulling_image in_progress, its last
\* report is an error with status 503 for step pulling_image, neither
\* createContainer nor launcher.launch is called in the run, the progress
\* subscription has been released and the run has ended with null
C23_ImageTimeoutIsFatal ==
  [][\A lines \in 0 .. MaxPullLines :
       (plBody.image = "pull" /\ EnsureImage(lines, FALSE)) =>
         /\ \E i \in DOMAIN plLog' :
              plLog'[i] = Progress("pulling_image", "in_progress")
         /\ plLog'[Len(plLog')] = ErrorReport(503, "pulling_image")
         /\ ~HasCall(plLog', "createContainer")
         /\ ~HasCall(plLog', "launch")
         /\ CountCalls(plLog', "onImagePullProgress") = CountCalls(plLog', "unsub")
         /\ plPc' = "done"
         /\ plResult' = "null"]_vars

\* the wait ended without the image after a progress line was forwarded
C23_Witness ==
  /\ HasCall(plLog, "onImagePullProgress")
  /\ plLog[Len(plLog)] = ErrorReport(503, "pulling_image")
  /\ Len(ProgressLog) > 3

\* C24: when an image is required and the backend's auth is not available
\* to the container, the auth check reports a fatal error that carries the
\* step creating_container, no container is created and the CLI is not
\* launched
C24_MissingAuthFailsAtCreatingContainer ==
  [][(plBody.image # "none" /\ ~plBody.auth /\ AuthCheck) =>
       /\ plLog'[Len(plLog')].kind = "error"
       /\ plLog'[Len(plLog')].step = "creating_container"
       /\ ~HasCall(plLog', "createContainer")
       /\ ~HasCall(plLog', "launch")
       /\ plResult' = "null"]_vars

GitSteps == {"creating_worktree", "fetching_git", "checkout_branch", "pulling_git"}

\* C25: a failing git operation never ends the run: once the git section
\* is left every git step that was started has its done event, no error is
\* reported for a git step that ran, and a run that ended after a git step
\* ran either reached launching_cli or was stopped by the error of a later
\* step
C25_GitFailuresNeverAbort ==
  /\ plPc # "git" => (GitSteps \cap StepsSeen) \subseteq StepsDone
  /\ \A i \in ErrorsAt :
       GitSteps \cap StepsSeen # {} => plLog[i].step \notin GitSteps
  /\ (plPc = "done" /\ GitSteps \cap StepsSeen # {}) =>
       ("launching_cli" \in StepsSeen \/ ErrorsAt # {})

\* no container id is tracked under two keys
UniqueKeys(map) ==
  \A a, b \in SessionKeys :
    (a # b /\ map[a] # NoContainer) => map[a].containerId # map[b].containerId

\* C35: no container id is ever tracked under two keys; the step that ends
\* a containerized run with a result moves the entry createContainer made
\* from the temporary id to the id of the launched session, another key,
\* with the ContainerInfo and the runtime unchanged; and a removeContainer
\* for that session id then finds this container, removes it from the
\* runtime unless `docker rm -f` fails, and untracks it
C35_RetrackedUnderSessionId ==
  /\ [](UniqueKeys(containers))
  /\ [][/\ (plPc = "launch" /\ plResult' = "result" /\ plRun.containerId # 0) =>
            /\ containers[plRun.tempId].containerId = plRun.containerId
            /\ plRun'.sessionId # plRun.tempId
            /\ containers'[plRun'.sessionId] = containers[plRun.tempId]
            /\ containers'[plRun.tempId] = NoContainer
            /\ docker' = docker
       /\ \A rmFails \in BOOLEAN :
            (/\ plResult = "result"
             /\ plRun.containerId # 0
             /\ containers[plRun.sessionId] # NoContainer
             /\ RemoveLaunched(rmFails)) =>
              /\ containers[plRun.sessionId].containerId = plRun.containerId
              /\ containers' = [k \in SessionKeys |-> NoContainer]
              /\ ~rmFails => docker'[plRun.containerId] = "missing"]_vars

\* a containerized run returned a result and its container is tracked under
\* the id of the launched session
C35_Witness ==
  /\ plResult = "result"
  /\ plRun.containerId # 0
  /\ ctOutcome = Outcome("retrack", "none", 0)
  /\ containers[plRun.sessionId].containerId = plRun.containerId
  /\ docker[plRun.containerId] = "running"

(***************************************************************************)
(* Properties of the ContainerManager                                      *)
(***************************************************************************)
\* C26: createContainer with a port that is not an integer in 1..65535
\* throws, creates and starts nothing in the runtime and leaves the
\* tracking map as it was
C26_InvalidPortRejected ==
  [][\A sessionId \in SessionKeys, ports \in PortConfigs, fail \in CreateFailures :
       \A unresolved \in SUBSET ports :
         (/\ \E port \in ports : ~(port.integer /\ port.n \in 1 .. 65535)
          /\ createContainer(sessionId, ports, fail, unresolved)) =>
           /\ ctOutcome'.error # "none"
           /\ docker' = docker
           /\ ctNext' = ctNext
           /\ containers' = containers]_vars

\* createContainer threw for its ports while another container is tracked
C26_Witness ==
  /\ ctOutcome = Outcome("createContainer", "Invalid port number", 0)
  /\ Tracked(containers) # {}

\* C27: when a sub-step of createContainer fails (create, start, seeding,
\* resolution of a requested port) the call raises, the container it had
\* begun is gone from the runtime and the tracking map gets no entry; and
\* an entry that createContainer adds has a host port for every requested
\* port
C27_FailedCreateTearsDown ==
  [][\A sessionId \in SessionKeys, ports \in PortConfigs, fail \in CreateFailures :
       \A unresolved \in SUBSET ports :
         (/\ \A port \in ports : port.integer /\ port.n \in 1 .. 65535
          /\ createContainer(sessionId, ports, fail, unresolved)) =>
           /\ (fail # "none" \/ unresolved # {}) =>
                /\ ctOutcome'.error # "none"
                /\ containers' = containers
                /\ \A id \in ContainerIds : docker[id] = "missing" => docker'[id] = "missing"
           /\ containers'[sessionId] # NoContainer =>
                containers'[sessionId].portMappings = {port.n : port \in ports}]_vars

\* C28: removeContainer of an untracked session changes nothing; after
\* removeContainer the session is untracked whether or not the runtime's
\* remove command failed, and the other sessions are tracked as before, so
\* a second call is the no-op of the first case; cleanupAll leaves the
\* tracking map empty
C28_RemoveIsIdempotent ==
  [][/\ \A sessionId \in SessionKeys, rmFails \in BOOLEAN :
          removeContainer(sessionId, rmFails) =>
            /\ containers[sessionId] = NoContainer =>
                 UNCHANGED <<containers, docker, ctNext, stateFile>>
            /\ containers'[sessionId] = NoContainer
            /\ \A k \in SessionKeys \ {sessionId} : containers'[k] = containers[k]
     /\ \A failed \in SUBSET SessionKeys :
          cleanupAll(failed) => Tracked(containers') = {}]_vars

\* removeContainer returned after a failed remove command: a container is
\* still running in the runtime and no session tracks it
C28_Witness ==
  /\ ctOutcome.op = "removeContainer"
  /\ \E id \in ContainerIds :
       /\ docker[id] = "running"
       /\ \A k \in SessionKeys : containers[k].containerId # id

\* C29: persistState writes one entry per tracked container; restoreState
\* on a fresh manager tracks, under its persisted session key, every
\* persisted container that the runtime still has, with its persisted id
\* and port mappings and with state running or stopped as the runtime
\* reports, tracks nothing else and returns the number it restored; for a
\* missing or corrupt file it tracks nothing and returns 0
C29_PersistRestoreRoundTrip ==
  [][/\ persistState(FALSE) =>
          /\ stateFile'.status = "ok"
          /\ {e.sessionId : e \in stateFile'.entries} = Tracked(containers)
          /\ \A e \in stateFile'.entries : e.info = containers[e.sessionId]
     /\ (Tracked(containers) = {} /\ restoreState) =>
          /\ stateFile.status # "ok" =>
               (Tracked(containers') = {} /\ ctOutcome'.count = 0)
          /\ stateFile.status = "ok" =>
               /\ Tracked(containers') =
                    {e.sessionId : e \in {x \in stateFile.entries :
                                            docker[x.info.containerId] # "missing"}}
               /\ \A e \in stateFile.entries :
                    e.sessionId \in Tracked(containers') =>
                      /\ containers'[e.sessionId].containerId = e.info.containerId
                      /\ containers'[e.sessionId].portMappings = e.info.portMappings
                      /\ containers'[e.sessionId].state \in {"running", "stopped"}
                      /\ containers'[e.sessionId].state = "running" <=>
                           docker[e.info.containerId] = "running"
               /\ ctOutcome'.count = Cardinality(Tracked(containers'))]_vars

\* a restore from a file with two entries, one of whose containers is gone
\* from the runtime and the other has stopped
C29_Witness ==
  /\ ctOutcome = Outcome("restoreState", "none", 1)
  /\ Cardinality(stateFile.entries) = 2
  /\ \E k \in Tracked(containers) : containers[k].state = "stopped"

C36_OnlyDerivedBranchDeleted ==
  wtOutcome.branchDeleted # "none" =>
    /\ wtOutcome.returned = "cleaned"
    /\ wtOutcome.mapping.actualBranch # "none"
    /\ wtOutcome.mapping.actualBranch # wtOutcome.mapping.branch
    /\ wtOutcome.branchDeleted = wtOutcome.mapping.actualBranch
    /\ wtOutcome.branchDeleted # wtOutcome.mapping.branch

\* a cleanup removed the worktree of a mapping whose actualBranch is the
\* requested branch and deleted no branch
C36_Witness ==
  /\ wtOutcome.returned = "cleaned"
  /\ wtOutcome.mapping.actualBranch = wtOutcome.mapping.branch
  /\ wtOutcome.mapping.branch = "feat"
  /\ wtOutcome.branchDeleted = "none"

(***************************************************************************)
(* Properties of the WebSocket proxy of the Codex backend                  *)
(***************************************************************************)
\* socket id emits its error or its close in this step
Failed(id) ==
  /\ pxSock'[id] \in {"errored", "closed"}
  /\ pxSock'[id] # pxSock[id]

\* C32, the part a finite run decides: while no socket has opened, every
\* error or close of a socket sets one retry timer of at most 500 ms and
\* does not end the process, and a connect() that runs after the deadline
\* exits with code 1; once a socket has opened, every error or close of a
\* socket exits with code 1, and no further WebSocket is created
C32_RetryUntilOpenThenFatal ==
  [][/\ \A id \in ProxySockets :
          (~pxOpened /\ Failed(id)) =>
            /\ Len(pxTimers') = Len(pxTimers) + 1
            /\ pxTimers'[Len(pxTimers')] - pxNow \in 1 .. 5
            /\ pxExit' = "running"
     /\ (~pxOpened /\ pxNow > proxyTimeoutMs /\ pxAttempt' # pxAttempt) =>
          pxExit' = "exit 1"
     /\ \A id \in ProxySockets : (pxOpened /\ Failed(id)) => pxExit' = "exit 1"
     /\ pxOpened =>
          \A id \in ProxySockets : pxSock[id] = "none" => pxSock'[id] = "none"]_vars

\* the lines of a sequence of sends
LinesOf(sends) == [i \in 1 .. Len(sends) |-> sends[i].line]

\* C34, the part a finite run decides: the lines sent so far followed by
\* the queued ones are the non-empty lines read so far, in the order read
\* and each once; all sends go to one WebSocket; and the step in which a
\* socket opens for the first time sends the whole queue, in order
C34_LinesSentOnceInOrder ==
  /\ [](/\ LinesOf(pxSent) \o pxQueue = SelectSeq(pxRead, LAMBDA line : line # 0)
        /\ \A i, j \in DOMAIN pxSent : pxSent[i].sock = pxSent[j].sock)
  /\ [][(~pxOpened /\ pxOpened') =>
          /\ pxQueue' = <<>>
          /\ LinesOf(pxSent') = LinesOf(pxSent) \o pxQueue]_vars

(***************************************************************************)
(* Properties of the tool progress of the browser client                   *)
(***************************************************************************)
\* the messages handled in this step: the message itself, or the events of
\* an event_replay
HandledNow ==
  IF tpLast'.msg.type = "event_replay"
    THEN {tpLast'.msg.events[i] : i \in DOMAIN tpLast'.msg.events}
    ELSE {tpLast'.msg}

\* the step leaves the session without any tool-progress entry
AllCleared(sessionId) ==
  \A id \in ToolUseIds : toolProgress'[sessionId][id] = NoProgress

\* C33 as stated: an entry disappears only from the session of the message
\* handled, and only when an assistant message with a tool_result block of
\* that tool_use_id is handled or a result message is handled; a result
\* message clears every entry of its session
C33_ClearedOnlyByToolResultOrResult ==
  [][/\ \A sessionId \in ToolSessions, id \in ToolUseIds :
          (toolProgress[sessionId][id] # NoProgress
             /\ toolProgress'[sessionId][id] = NoProgress) =>
            /\ tpLast'.session = sessionId
            /\ \E msg \in HandledNow :
                 \/ msg.type = "assistant" /\ id \in msg.results
                 \/ msg.type = "result"
     /\ tpLast'.msg.type = "result" => AllCleared(tpLast'.session)]_vars

\* C33 (amended): an entry disappears only from the session of the message
\* handled, and only when an assistant message with a tool_result block of
\* that tool_use_id is handled, a result message is handled, or a
\* message_history whose last message is a result is handled; the latter
\* two clear every entry of the session, and an assistant message removes
\* exactly the entries its tool_result blocks name
C33_ClearedByToolResultResultOrHistory ==
  [][/\ \A sessionId \in ToolSessions, id \in ToolUseIds :
          (toolProgress[sessionId][id] # NoProgress
             /\ toolProgress'[sessionId][id] = NoProgress) =>
            /\ tpLast'.session = sessionId
            /\ \E msg \in HandledNow :
                 \/ msg.type = "assistant" /\ id \in msg.results
                 \/ msg.type = "result"
                 \/ msg.type = "message_history" /\ msg.lastIsResult
     /\ (\/ tpLast'.msg.type = "result"
         \/ tpLast'.msg.type = "message_history" /\ tpLast'.msg.lastIsResult) =>
          AllCleared(tpLast'.session)
     /\ tpLast'.msg.type = "assistant" =>
          \A id \in ToolUseIds :
            toolProgress'[tpLast'.session][id] =
              IF id \in tpLast'.msg.results THEN NoProgress
              ELSE toolProgress[tpLast'.session][id]]_vars

\* a message_history whose last message is a result cleared the entries
\* of its session
C33_Witness ==
  /\ tpLast.msg.type = "message_history"
  /\ tpLast.msg.lastIsResult
  /\ tpLast.removed = ToolUseIds

(***************************************************************************)
(* Properties of the session bridge and the browser client                 *)
(***************************************************************************)
\* C1: the seq stamped on the envelopes of a bridge starts at 1 and each
\* envelope gets the previous seq + 1, so no seq is reset or used twice; the
\* ring holds the latest envelopes in that order.
C1_SeqContiguous ==
  /\ Len(stamped) = brSeq
  /\ \A i \in DOMAIN stamped : stamped[i] = i
  /\ \A i \in DOMAIN ring : ring[i].seq = brSeq - Len(ring) + i

\* three envelopes were stamped while one subscriber came and went and
\* another one is subscribed
C1_Witness ==
  /\ Len(stamped) >= 3
  /\ \E s \in Socks : sockState[s] = "closed"
  /\ subscribed # {}

\* the step in which the bridge answers the session_subscribe of socket s
SubscribeStep(s) == s \notin subscribed /\ s \in subscribed'

SeqsOf(events) == [i \in DOMAIN events |-> events[i].seq]

\* the seqs last_seq + 1 .. current
TailAfter(lastSeq) == [i \in 1 .. (brSeq - lastSeq) |-> lastSeq + i]

\* every envelope with seq in last_seq + 1 .. current is still in the ring
TailInRing(lastSeq) == lastSeq <= brSeq /\ lastSeq + 1 >= Earliest

\* a backend event is fanned out: every subscriber gets exactly the envelope
\* current + 1 appended, nobody else gets anything
LiveDelivery ==
  brSeq' # brSeq =>
    \A s \in Socks :
      IF s \in subscribed
        THEN /\ Len(chan'[s]) = Len(chan[s]) + 1
             /\ SubSeq(chan'[s], 1, Len(chan[s])) = chan[s]
             /\ chan'[s][Len(chan'[s])].seq = brSeq + 1
        ELSE chan'[s] = chan[s]

\* the answer to session_subscribe{last_seq} when replay starts at FromSeq
ResumeReply(s, FromSeq) ==
  SubscribeStep(s) =>
    LET lastSeq == Head(up[s]).last_seq IN
      /\ brSeq' = brSeq
      /\ Len(chan'[s]) = 1
      /\ (lastSeq >= FromSeq /\ TailInRing(lastSeq)) =>
           /\ chan'[s][1].type = "event_replay"
           /\ SeqsOf(chan'[s][1].events) = TailAfter(lastSeq)
      /\ lastSeq + 1 < Earliest => chan'[s][1].type = "message_history"

Cursor == getLastSeq

\* the seqs handed to a type handler in this step
NewlyHandled == SubSeq(handled', Len(handled) + 1, Len(handled'))

\* C3: the cursor never decreases, whatever frame arrives and whatever
\* happens to the sockets, and a handler runs for a sequenced envelope only
\* when its seq is above the cursor at that moment.
C3_CursorMonotone ==
  [][/\ Cursor' >= Cursor
     /\ \A i \in DOMAIN NewlyHandled :
          NewlyHandled[i] > (IF i = 1 THEN Cursor ELSE NewlyHandled[i - 1])]_vars

\* a frame is taken from an open socket and no handler runs nor is an ack sent
DroppedSilently == handled' = handled /\ acked' = acked

\* the step in which onmessage gets a sequenced envelope at or below the cursor
StaleArrival ==
  \E s \in Socks :
    /\ sockState[s] = "open"
    /\ chan[s] # <<>>
    /\ chan'[s] = Tail(chan[s])
    /\ Head(chan[s]).seq > 0
    /\ Head(chan[s]).seq <= Cursor

\* C4: no seq is given to a type handler twice, and an envelope at or below
\* the cursor is dropped without a handler call and without an ack.
C4_AtMostOnce ==
  /\ [](\A i, j \in DOMAIN handled : i # j => handled[i] # handled[j])
  /\ [][StaleArrival => DroppedSilently]_vars

\* positions of the decisions forwarded to the backend for request rid
DecisionsFor(rid) ==
  {i \in DOMAIN backendLog :
     /\ backendLog[i].dir = "to"
     /\ backendLog[i].type = "permission_response"
     /\ backendLog[i].request_id = rid}

CancelledAt(rid) ==
  {i \in DOMAIN backendLog : backendLog[i] = FromBackend("permission_cancelled", rid)}

RequestedAt(rid) ==
  {i \in DOMAIN backendLog : backendLog[i] = FromBackend("permission_request", rid)}

\* C5: for every request id at most one decision goes to the backend, it
\* follows the permission_request and no permission_cancelled precedes it;
\* a request that was decided or cancelled is no longer pending, and only a
\* requested id is ever pending.
C5_OneDecisionPerRequest ==
  \A rid \in RequestIds :
    /\ Cardinality(DecisionsFor(rid)) <= 1
    /\ \A i \in DecisionsFor(rid) :
         /\ \E j \in RequestedAt(rid) : j < i
         /\ \A j \in CancelledAt(rid) : i < j
    /\ (DecisionsFor(rid) # {} \/ CancelledAt(rid) # {}) => rid \notin pendingPermissions
    /\ rid \in pendingPermissions => RequestedAt(rid) # {}

\* a browser's decision for a request was forwarded, and a later
\* permission_response for it, under another client_msg_id, was not
C5_Witness ==
  \E rid \in RequestIds, k \in DOMAIN received :
    /\ received[k].cmd.type = "permission_response"
    /\ received[k].cmd.request_id = rid
    /\ ~received[k].forwarded
    /\ \E i \in DecisionsFor(rid), h \in 1 .. (k - 1) :
         /\ received[h].forwarded
         /\ received[h].cmd = Command("permission_response", rid, backendLog[i].client_msg_id)
         /\ received[h].cmd.client_msg_id # received[k].cmd.client_msg_id

\* every idempotent command sendToSession builds carries a client_msg_id: the
\* given one, or else one no earlier command of this browser carried
CarriesClientMsgId ==
  \A k \in DOMAIN sentCmds :
    /\ sentCmds[k].outgoing.client_msg_id # NoId
    /\ sentCmds[k].msg.client_msg_id # NoId =>
         sentCmds[k].outgoing.client_msg_id = sentCmds[k].msg.client_msg_id
    /\ sentCmds[k].msg.client_msg_id = NoId =>
         \A h \in 1 .. (k - 1) :
           sentCmds[h].outgoing.client_msg_id # sentCmds[k].outgoing.client_msg_id
    /\ sentCmds[k].outgoing = [sentCmds[k].msg EXCEPT
                                 !.client_msg_id = sentCmds[k].outgoing.client_msg_id]

SameId(i, j) == received[i].cmd.client_msg_id = received[j].cmd.client_msg_id

\* command j repeats the id command i brought first, and fewer other ids than
\* the window holds came in between
InDedupWindow(i, j) ==
  /\ i < j
  /\ SameId(i, j)
  /\ \A h \in 1 .. (i - 1) : ~SameId(h, i)
  /\ Cardinality({received[h].cmd.client_msg_id : h \in (i + 1) .. (j - 1)}
                 \ {received[i].cmd.client_msg_id}) < DedupWindow

\* C6 as stated: every idempotent command carries a client_msg_id, and of two
\* commands with the same id inside the dedup window exactly one, the first,
\* is forwarded.
C6_ExactlyOneForwarded ==
  /\ CarriesClientMsgId
  /\ \A i, j \in DOMAIN received :
       InDedupWindow(i, j) => (received[i].forwarded /\ ~received[j].forwarded)

\* C6 amended: every idempotent command carries a client_msg_id, and of two
\* commands with the same id inside the dedup window the later one is never
\* forwarded and the first one is, unless it is a permission_response whose
\* request is not pending.
C6_AtMostOneForwarded ==
  /\ CarriesClientMsgId
  /\ \A i, j \in DOMAIN received :
       InDedupWindow(i, j) =>
         /\ ~received[j].forwarded
         /\ \/ received[i].forwarded
            \/ received[i].cmd.type = "permission_response" /\ ~received[i].pending

\* this browser sent a command with a given id twice and one with a stamped
\* id; the bridge forwarded the first of the two and the stamped one and
\* dropped the repetition
C6_Witness ==
  /\ \E i, j \in DOMAIN received :
       /\ InDedupWindow(i, j)
       /\ received[i].cmd.client_msg_id \in GivenIds
       /\ received[i].forwarded
       /\ ~received[j].forwarded
  /\ \E k \in DOMAIN received :
       /\ received[k].cmd.client_msg_id.kind = "cmsg"
       /\ received[k].forwarded
  /\ \E k \in DOMAIN sentCmds : sentCmds[k].msg.client_msg_id = NoId

(***************************************************************************)
(* Browser client: reconnecting (ws.ts)                                    *)
(***************************************************************************)
\* the sockets of the session that are connecting or open
Live == {s \in Socks : sockState[s] \in {"connecting", "open"}}

\* the frame ws.onopen sends
SubscribeFrame ==
  [type |-> "session_subscribe", last_seq |-> getLastSeq, request_id |-> "none"]

C38_OneLiveSocket ==
  /\ [](Cardinality(Live) <= 1)
  /\ [][\A s \in Socks : (SocketClose(s) /\ sockets # s) => sockets' = sockets]_vars

\* no socket is registered and no reconnect is scheduled
Quiet == sockets = 0 /\ ~reconnectTimers

\* C39: disconnectSession leaves the session without a registered socket and
\* without a reconnect timer, and from then on only connectSession schedules
\* a timer or creates a socket.
C39_NoReconnectAfterDisconnect ==
  [][/\ DisconnectSession => Quiet'
     /\ (Quiet /\ ~ConnectSession) => Quiet']_vars

(***************************************************************************)
(* Browser client against a restarted bridge (ws.ts)                       *)
(***************************************************************************)
\* C40: the browser drops an envelope of the session's bridge as already
\* seen only if it has processed an envelope of that bridge with the same or
\* a higher seq; a cursor kept from the bridge before the restart makes it
\* drop none.
C40_NewBridgeNotDiscarded ==
  \A k \in staleDropped : \E i \in DOMAIN handled : handled[i] >= k

====
